---- MODULE Spec2Model ----
(***************************************************************************)
(* AptosFlow: the on-chain workflow_graph module (Move) and the payment    *)
(* gate of the backend (TypeScript), as state machines.                    *)
(*                                                                         *)
(* SpecChain   the workflow_graph module: one action per entry function,   *)
(*             each a whole transaction (the Move VM commits a transaction *)
(*             that returns and discards every write of one that aborts).  *)
(* SpecPay     POST /api/payment/verify and the requirePayment middleware  *)
(*             over the Payment table.                                     *)
(***************************************************************************)
EXTENDS Integers, Sequences, FiniteSets, TLC

(***************************************************************************)
(* Bounds of the model.                                                    *)
(***************************************************************************)
\* number of transactions committed to the chain in one run
MaxCommits == 2
\* the block timestamp advances up to this many seconds past its start
MaxTime == 1
\* the block timestamp at the start of a run
StartTime == 1

(***************************************************************************)
(* Program constants of workflow_graph.                                    *)
(***************************************************************************)
E_WORKFLOW_NOT_FOUND == 1
E_NOT_OWNER == 2
E_WORKFLOW_LOCKED == 3
E_INVALID_NODE_ID == 4
E_RECURSION_LIMIT == 7
E_UNKNOWN_NODE_TYPE == 8
E_NOT_IMPLEMENTED == 11
MAX_RECURSION_DEPTH == 20

NODE_TYPE_TRANSFER == 1
NODE_TYPE_BALANCE_CHECK == 2
NODE_TYPE_END == 3
NODE_TYPE_SWAP == 4
NODE_TYPE_STAKE == 5
NODE_TYPE_VOTE == 6
NODE_TYPE_WAIT == 7
NODE_TYPE_BRANCH == 8
NODE_TYPE_LIQUIDITY == 9
NODE_TYPE_BORROW_LEND == 10
NODE_TYPE_ORACLE_CHECK == 11

\* Abort codes of the framework calls the module makes: error::invalid_argument
\* is category 1 (<< 16), error::not_found is category 6, vector's own code.
\* coin::transfer, withdrawing more than the balance (EINSUFFICIENT_BALANCE)
EINSUFFICIENT_BALANCE == 65536 + 6
\* coin::transfer, depositing to an address without a CoinStore
ECOIN_STORE_NOT_PUBLISHED == (6 * 65536) + 5
\* simple_map::add of a key that is already present
EKEY_ALREADY_EXISTS == 65536 + 1
\* vector::borrow past the end of the vector
EINDEX_OUT_OF_BOUNDS == 2 * 65536

(***************************************************************************)
(* Addresses.  A and B are accounts that sign transactions and hold a coin *)
(* store; Z stands for an address without a coin store (such as @0x0).     *)
(***************************************************************************)
Signers == {"A", "B"}
Addresses == {"A", "B", "Z"}
CoinRegistered == {"A", "B"}
ZeroAddress == "Z"

VARIABLES
  stores,     \* address -> WorkflowStore resource (exists = FALSE: none published)
  balance,    \* address -> CoinStore<AptosCoin> value
  events,     \* the committed event log
  now,        \* timestamp::now_seconds()
  lastTx,     \* the last transaction submitted and how it ended
  commits,    \* transactions committed so far
  \* ---- backend: payments ----
  config,     \* the parsed environment: nodeEnv, skipPaymentInDev
  users,      \* rows of the users table, in order of creation
  payments,   \* rows of the payments table, in order of creation
  clock,      \* backend wall clock (new Date()), in hours
  lastReq     \* the HTTP request handled at this instant and its response

chainVars == <<stores, balance, events, now, lastTx, commits>>
payVars == <<config, users, payments, clock, lastReq>>

VARIABLES
  \* ---- backend: storePayment calls in flight ----
  calls       \* call -> where the call stands between its database calls

VARIABLES
  \* ---- backend: rate limiting ----
  rateLimits, \* rows of the rate_limits table, in order of creation
  nowMs,      \* new Date().getTime() of the rate limiter
  rateSeen,   \* wallet -> its current window and the requests it sent in it
  lastRate    \* the last request rateLimitByWallet handled and its response

VARIABLES
  \* ---- backend: prompts and generated workflows ----
  prompts,      \* rows of the prompts table, in order of creation
  workflowRows, \* rows of the workflows table, in order of creation
  runs,         \* prompt -> where its generation (job or stream) stands
  lastStatus    \* HTTP status of the last answer of a generation route

VARIABLES
  \* ---- backend: scheduler ----
  jobs,       \* SchedulerService.jobs: workflow id -> its task (0: no entry)
  tasks,      \* the cron tasks created so far, in order of creation
  lastTick    \* the cron tick that fired last and the calls it made

VARIABLES
  \* ---- backend: indexer ----
  poll,       \* the poll cycle: where it stands and the workflows it loops over
  checked     \* what the cycle did for each workflow it has been through

VARIABLES
  \* ---- backend: canvas persistence ----
  saves       \* request -> where a POST /api/workflows/save stands

VARIABLES
  \* ---- backend: health ----
  probes      \* request -> where a GET /health stands and what it met

VARIABLES
  \* ---- request validation of POST /api/generate and POST /api/payment/verify ----
  validated   \* the last request of the two routes and what it was answered

VARIABLES
  \* ---- concurrent requests through rateLimitByWallet ----
  rateCalls   \* per request: where it stands, its sender, its `now`, the row it found

VARIABLES
  \* ---- SchedulerService.init ----
  schedInit   \* the calls of init so far, the rows the last one read, whether it completed

VARIABLES
  \* ---- IndexerService: the poll loops ----
  isRunning,   \* the flag of the service
  loops        \* per call of poll() from start(): where the loop stands

VARIABLES
  \* ---- POST /api/workflow/stream: the frame loop ----
  stream   \* the locals of the handler and the frames written to the response

VARIABLES
  \* ---- POST /api/chat/stream ----
  chat,          \* the locals of the handler and the frames written to the response
  chatMessages   \* the chat_messages table

storeVars == <<calls>>
rateVars == <<rateLimits, nowMs, rateSeen, lastRate>>
promptVars == <<prompts, workflowRows, runs, lastStatus>>
schedVars == <<jobs, tasks, lastTick>>
indexerVars == <<poll, checked>>
saveVars == <<saves>>
healthVars == <<probes>>
validVars == <<validated>>
raceVars == <<rateCalls>>
loadVars == <<schedInit>>
loopVars == <<isRunning, loops>>
streamVars == <<stream>>
chatVars == <<chat, chatMessages>>
\* the variables of the backend outside the payment gate
svcVars == <<storeVars, rateVars, promptVars, schedVars, indexerVars, saveVars, healthVars, validVars, raceVars, loadVars, loopVars, streamVars, chatVars>>
\* what the steps of a storePayment call leave alone
storeFrame == <<chainVars, config, clock, lastReq, rateVars, promptVars, schedVars, indexerVars, saveVars, healthVars, validVars, raceVars, loadVars, loopVars, streamVars, chatVars>>
\* what rateLimitByWallet leaves alone
rateFrame == <<chainVars, payVars, storeVars, promptVars, schedVars, indexerVars, saveVars, healthVars, validVars, raceVars, loadVars, loopVars, streamVars, chatVars>>
\* what the generation routes and the process-prompt job leave alone
promptFrame == <<chainVars, config, payments, clock, lastReq, storeVars, rateVars, schedVars, indexerVars, saveVars, healthVars, validVars, raceVars, loadVars, loopVars, streamVars, chatVars>>
\* what the scheduler leaves alone
schedFrame == <<chainVars, payVars, storeVars, rateVars, promptVars, indexerVars, saveVars, healthVars, validVars, raceVars, loadVars, loopVars, streamVars, chatVars>>
\* what the indexer leaves alone
indexerFrame == <<chainVars, payVars, storeVars, rateVars, promptVars, schedVars, saveVars, healthVars, validVars, raceVars, loadVars, loopVars, streamVars, chatVars>>
\* what POST /api/workflows/save leaves alone
saveFrame == <<chainVars, config, payments, clock, lastReq, storeVars, rateVars,
              prompts, runs, lastStatus, schedVars, indexerVars, healthVars, validVars, raceVars, loadVars, loopVars, streamVars, chatVars>>
\* what GET /health leaves alone
healthFrame == <<chainVars, payVars, storeVars, rateVars, promptVars, schedVars, indexerVars, saveVars, validVars, raceVars, loadVars, loopVars, streamVars, chatVars>>
\* what a validated request leaves alone besides the tables it writes
validFrame == <<chainVars, config, clock, lastReq, storeVars, nowMs, rateSeen, lastRate,
               workflowRows, lastStatus, schedVars, indexerVars, saveVars, healthVars, raceVars, loadVars, loopVars, streamVars, chatVars>>
\* what a step of a concurrent rate-limited request leaves alone besides rateLimits
raceFrame == <<chainVars, payVars, storeVars, nowMs, rateSeen, lastRate, promptVars, schedVars,
              indexerVars, saveVars, healthVars, validVars, loadVars, loopVars, streamVars, chatVars>>
\* what SchedulerService.init leaves alone
loadFrame == <<chainVars, payVars, storeVars, rateVars, promptVars, indexerVars, saveVars, healthVars, validVars, raceVars, loopVars, streamVars, chatVars>>
\* what start(), stop() and the poll loops leave alone
loopFrame == <<chainVars, payVars, storeVars, rateVars, promptVars, schedVars, indexerVars, saveVars, healthVars, validVars, raceVars, loadVars, streamVars, chatVars>>
\* what the frame loop of POST /api/workflow/stream leaves alone
streamFrame == <<chainVars, payVars, storeVars, rateVars, promptVars, schedVars, indexerVars, saveVars, healthVars, validVars, raceVars, loadVars, loopVars, chatVars>>
\* what a step of POST /api/chat/stream leaves alone
chatFrame == <<chainVars, payVars, storeVars, rateVars, promptVars, schedVars, indexerVars, saveVars, healthVars, validVars, raceVars, loadVars, loopVars, streamVars>>

vars == <<stores, balance, events, now, lastTx, commits,
          config, users, payments, clock, lastReq, svcVars>>

(***************************************************************************)
(* Data of workflow_graph.                                                 *)
(***************************************************************************)
\* an empty SimpleMap / Table
EmptyMap == [k \in {} |-> 0]

\* struct Node
Node(id, node_type, target_address, amount, next_ids) ==
  [id |-> id, node_type |-> node_type, target_address |-> target_address,
   amount |-> amount, data |-> <<>>, next_ids |-> next_ids]

\* the value of exists<WorkflowStore>(a) = false
NoStore == [exists |-> FALSE, workflows |-> EmptyMap, next_workflow_id |-> 0]

\* The state a transaction reads and writes; abort = 0 while it is running
\* normally, the abort code once it has aborted.
WorkState(st, bal, ev) == [stores |-> st, balance |-> bal, events |-> ev, abort |-> 0]

Abort(ws, code) == [ws EXCEPT !.abort = code]

WorkflowStepEvent(workflow_id, node_id, node_type, success, error_code) ==
  [kind |-> "WorkflowStepEvent", workflow_id |-> workflow_id, node_id |-> node_id,
   node_type |-> node_type, success |-> success, error_code |-> error_code]

WorkflowCompletedEvent(workflow_id, total_steps, success) ==
  [kind |-> "WorkflowCompletedEvent", workflow_id |-> workflow_id,
   total_steps |-> total_steps, success |-> success]

WorkflowRegisteredEvent(workflow_id, owner, node_count) ==
  [kind |-> "WorkflowRegisteredEvent", workflow_id |-> workflow_id,
   owner |-> owner, node_count |-> node_count]

Emit(ws, e) == [ws EXCEPT !.events = Append(@, e)]

(***************************************************************************)
(* Views.                                                                  *)
(***************************************************************************)
get_workflow(st, owner, workflow_id) ==
  IF ~st[owner].exists THEN <<FALSE, 0, 0, 0, FALSE>>
  ELSE IF workflow_id \notin DOMAIN st[owner].workflows THEN <<FALSE, 0, 0, 0, FALSE>>
  ELSE LET workflow == st[owner].workflows[workflow_id]
       IN <<TRUE, workflow.start_node_id, workflow.created_at,
            workflow.last_executed_at, workflow.is_locked>>

has_workflow(st, owner, workflow_id) ==
  IF ~st[owner].exists THEN FALSE
  ELSE workflow_id \in DOMAIN st[owner].workflows

get_next_workflow_id(st, owner) ==
  IF ~st[owner].exists THEN 0 ELSE st[owner].next_workflow_id

(***************************************************************************)
(* Registration.                                                           *)
(***************************************************************************)
init_workflow_store(ws, owner) ==
  IF ~ws.stores[owner].exists
  THEN [ws EXCEPT !.stores[owner] =
          [exists |-> TRUE, workflows |-> EmptyMap, next_workflow_id |-> 0]]
  ELSE ws

\* variant of the definition below: the counter is not incremented
AddWorkflowSameCounter(ws, owner, workflow_id, nodes_map, start_node_id, node_count, t) ==
  LET workflow == [id |-> workflow_id, owner |-> owner, nodes |-> nodes_map,
                   start_node_id |-> start_node_id, created_at |-> t,
                   last_executed_at |-> 0, is_locked |-> FALSE]
      ws1 == [ws EXCEPT !.stores[owner].workflows = (workflow_id :> workflow) @@ @]
  IN Emit(ws1, WorkflowRegisteredEvent(workflow_id, owner, node_count))

\* table::add(&mut store.workflows, workflow_id, workflow) after the counter
\* has been post-incremented, then the WorkflowRegisteredEvent.
AddWorkflow(ws, owner, workflow_id, nodes_map, start_node_id, node_count, t) ==
  LET workflow == [id |-> workflow_id, owner |-> owner, nodes |-> nodes_map,
                   start_node_id |-> start_node_id, created_at |-> t,
                   last_executed_at |-> 0, is_locked |-> FALSE]
      ws1 == [ws EXCEPT !.stores[owner].next_workflow_id = workflow_id + 1,
                        !.stores[owner].workflows = (workflow_id :> workflow) @@ @]
  IN Emit(ws1, WorkflowRegisteredEvent(workflow_id, owner, node_count))

\* Returns [ws, workflow_id].
create_simple_transfer_workflow_internal(ws, owner, recipient, amount, t) ==
  LET ws0 == init_workflow_store(ws, owner)
      workflow_id == ws0.stores[owner].next_workflow_id
      transfer_node == Node(1, NODE_TYPE_TRANSFER, recipient, amount, <<2>>)
      end_node == Node(2, NODE_TYPE_END, ZeroAddress, 0, <<>>)
      nodes_map == (1 :> transfer_node) @@ (2 :> end_node)
  IN [ws |-> AddWorkflow(ws0, owner, workflow_id, nodes_map, 1, 2, t),
      workflow_id |-> workflow_id]

\* The while loop of create_workflow_internal from index i on; vectors are
\* 0-indexed in the source and 1-indexed here.  Returns [abort, nodes].
RECURSIVE build_nodes(_, _, _, _)
build_nodes(args, i, next_idx, nodes_map) ==
  IF ~(i < Len(args.node_ids)) THEN [abort |-> 0, nodes |-> nodes_map]
  ELSE IF \/ ~(i < Len(args.node_types))
          \/ ~(i < Len(args.target_addresses))
          \/ ~(i < Len(args.amounts))
          \/ ~(i < Len(args.next_node_counts))
       THEN [abort |-> EINDEX_OUT_OF_BOUNDS, nodes |-> nodes_map]
  ELSE LET id == args.node_ids[i + 1]
           count == args.next_node_counts[i + 1]
       IN IF next_idx + count > Len(args.flat_next_node_ids)
          THEN [abort |-> EINDEX_OUT_OF_BOUNDS, nodes |-> nodes_map]
          ELSE IF id \in DOMAIN nodes_map
          THEN [abort |-> EKEY_ALREADY_EXISTS, nodes |-> nodes_map]
          ELSE build_nodes(args, i + 1, next_idx + count,
                 (id :> Node(id, args.node_types[i + 1], args.target_addresses[i + 1],
                             args.amounts[i + 1],
                             SubSeq(args.flat_next_node_ids, next_idx + 1, next_idx + count)))
                 @@ nodes_map)

\* Returns [ws, workflow_id].
create_workflow_internal(ws, owner, args, t) ==
  LET ws0 == init_workflow_store(ws, owner)
      workflow_id == ws0.stores[owner].next_workflow_id
      built == build_nodes(args, 0, 0, EmptyMap)
      len == Len(args.node_ids)
      start_node_id == IF len > 0 THEN args.node_ids[1] ELSE 0
  IN IF built.abort # 0
     THEN [ws |-> Abort(ws0, built.abort), workflow_id |-> workflow_id]
     ELSE [ws |-> AddWorkflow(ws0, owner, workflow_id, built.nodes, start_node_id, len, t),
           workflow_id |-> workflow_id]

(***************************************************************************)
(* Execution.                                                              *)
(***************************************************************************)
\* variant of the definition below: the withdrawal is not checked against the balance
coin_transfer_unchecked(ws, from, to, amount) ==
  IF to \notin CoinRegistered THEN Abort(ws, ECOIN_STORE_NOT_PUBLISHED)
  ELSE LET withdrawn == [ws.balance EXCEPT ![from] = @ - amount]
       IN [ws EXCEPT !.balance = [withdrawn EXCEPT ![to] = @ + amount]]

\* coin::transfer<AptosCoin>(account, recipient, amount): withdraw, then deposit
coin_transfer(ws, from, to, amount) ==
  IF ws.balance[from] < amount THEN Abort(ws, EINSUFFICIENT_BALANCE)
  ELSE IF to \notin CoinRegistered THEN Abort(ws, ECOIN_STORE_NOT_PUBLISHED)
  ELSE LET withdrawn == [ws.balance EXCEPT ![from] = @ - amount]
       IN [ws EXCEPT !.balance = [withdrawn EXCEPT ![to] = @ + amount]]

\* The handlers return [ws, success, error_code]; ws.abort # 0 when they abort.
handle_transfer_action(ws, account, node) ==
  [ws |-> coin_transfer(ws, account, node.target_address, node.amount),
   success |-> TRUE, error_code |-> 0]

\* variant of the definition below: the check reads the balance the owner had when the transaction began
handle_balance_check_committed(ws, owner, node) ==
  [ws |-> ws, success |-> (balance[owner] >= node.amount), error_code |-> 0]

handle_balance_check(ws, owner, node) ==
  [ws |-> ws, success |-> (ws.balance[owner] >= node.amount), error_code |-> 0]

handle_end_node(ws) == [ws |-> ws, success |-> TRUE, error_code |-> 0]

\* variant of the definition below: the handlers report the failure and return
handle_not_implemented_soft(ws) ==
  [ws |-> ws, success |-> FALSE, error_code |-> E_NOT_IMPLEMENTED]

\* handle_swap_action, handle_stake_action, handle_vote_action,
\* handle_liquidity_action, handle_borrow_lend_action, handle_oracle_check
handle_not_implemented(ws) ==
  [ws |-> Abort(ws, E_NOT_IMPLEMENTED), success |-> FALSE, error_code |-> 0]

dispatch_node(ws, account, node, context) ==
  IF node.node_type = NODE_TYPE_TRANSFER THEN handle_transfer_action(ws, account, node)
  ELSE IF node.node_type = NODE_TYPE_BALANCE_CHECK
       THEN handle_balance_check(ws, context.owner, node)
  ELSE IF node.node_type = NODE_TYPE_END THEN handle_end_node(ws)
  ELSE IF node.node_type \in {NODE_TYPE_SWAP, NODE_TYPE_STAKE, NODE_TYPE_VOTE,
                              NODE_TYPE_LIQUIDITY, NODE_TYPE_BORROW_LEND,
                              NODE_TYPE_ORACLE_CHECK}
       THEN handle_not_implemented(ws)
  ELSE IF node.node_type = NODE_TYPE_WAIT THEN [ws |-> ws, success |-> TRUE, error_code |-> 0]
  ELSE IF node.node_type = NODE_TYPE_BRANCH THEN [ws |-> ws, success |-> TRUE, error_code |-> 0]
  ELSE [ws |-> ws, success |-> FALSE, error_code |-> E_UNKNOWN_NODE_TYPE]

\* variant of the definition below: the depth limit is off by one
depth_ok_inclusive(context) == context.current_depth <= MAX_RECURSION_DEPTH

\* The assert that opens walk_and_execute.
depth_ok(context) == context.current_depth < MAX_RECURSION_DEPTH

\* variant of the definition below: the walk goes on below a node whose dispatch failed
ContinuesAlways(success) == TRUE

\* Whether the walk goes on below a node after its dispatch.
Continues(success) == success

\* variant of the definition below: a BRANCH continues into every successor
BranchTargetsAll(next_ids) == next_ids

\* The successors a BRANCH node continues into (condition_met is the
\* placeholder TRUE of the source).
BranchTargets(next_ids) ==
  LET condition_met == TRUE
  IN IF Len(next_ids) >= 2
     THEN IF condition_met THEN <<next_ids[1]>> ELSE <<next_ids[2]>>
     ELSE <<>>

\* walk_and_execute returns [ws, steps]: the work state after the walk and
\* steps_executed.  walk_successors is its while loop over next_ids from
\* index i (1-based) on, steps being steps_executed so far.
RECURSIVE walk_and_execute(_, _, _, _, _)
RECURSIVE walk_successors(_, _, _, _, _, _, _)
walk_and_execute(ws, account, nodes, node_id, context) ==
  IF ~depth_ok(context)
  THEN [ws |-> Abort(ws, E_RECURSION_LIMIT), steps |-> 0]
  ELSE IF node_id \notin DOMAIN nodes
  THEN [ws |-> Abort(ws, E_INVALID_NODE_ID), steps |-> 0]
  ELSE LET node == nodes[node_id]
           d == dispatch_node(ws, account, node, context)
           ws1 == Emit(d.ws, WorkflowStepEvent(context.workflow_id, node_id,
                                               node.node_type, d.success, d.error_code))
           next_context == [context EXCEPT !.current_depth = @ + 1]
       IN IF d.ws.abort # 0 THEN [ws |-> d.ws, steps |-> 0]
          ELSE IF ~Continues(d.success) THEN [ws |-> ws1, steps |-> 1]
          ELSE IF node.node_type = NODE_TYPE_BRANCH
          THEN walk_successors(ws1, account, nodes, BranchTargets(node.next_ids), 1,
                               next_context, 1)
          ELSE walk_successors(ws1, account, nodes, node.next_ids, 1, next_context, 1)

\* variant of the definition below: a successor counts as one step, whatever its walk returned
walk_successors_uncounted(ws, account, nodes, next_ids, i, next_context, steps) ==
  IF i > Len(next_ids) THEN [ws |-> ws, steps |-> steps]
  ELSE LET r == walk_and_execute(ws, account, nodes, next_ids[i], next_context)
       IN IF r.ws.abort # 0 THEN [ws |-> r.ws, steps |-> steps]
          ELSE walk_successors(r.ws, account, nodes, next_ids, i + 1, next_context,
                               steps + 1)

\* variant of the definition below: the successors are visited from the last to the first
walk_successors_reversed(ws, account, nodes, next_ids, i, next_context, steps) ==
  IF i > Len(next_ids) THEN [ws |-> ws, steps |-> steps]
  ELSE LET r == walk_and_execute(ws, account, nodes, next_ids[Len(next_ids) + 1 - i],
                                 next_context)
       IN IF r.ws.abort # 0 THEN [ws |-> r.ws, steps |-> steps]
          ELSE walk_successors(r.ws, account, nodes, next_ids, i + 1, next_context,
                               steps + r.steps)

walk_successors(ws, account, nodes, next_ids, i, next_context, steps) ==
  IF i > Len(next_ids) THEN [ws |-> ws, steps |-> steps]
  ELSE LET r == walk_and_execute(ws, account, nodes, next_ids[i], next_context)
       IN IF r.ws.abort # 0 THEN [ws |-> r.ws, steps |-> steps]
          ELSE walk_successors(r.ws, account, nodes, next_ids, i + 1, next_context,
                               steps + r.steps)

\* variant of the definition below: an id that only another account holds is refused as not owned
execute_asserts_foreign(ws, owner, workflow_id) ==
  IF ~ws.stores[owner].exists \/ workflow_id \notin DOMAIN ws.stores[owner].workflows
  THEN IF \E b \in DOMAIN ws.stores :
            ws.stores[b].exists /\ workflow_id \in DOMAIN ws.stores[b].workflows
       THEN E_NOT_OWNER ELSE E_WORKFLOW_NOT_FOUND
  ELSE IF ws.stores[owner].workflows[workflow_id].is_locked THEN E_WORKFLOW_LOCKED
  ELSE 0

\* The asserts that open execute_workflow: the abort code of the first that
\* fails, 0 when all hold.
execute_asserts(ws, owner, workflow_id) ==
  IF ~ws.stores[owner].exists THEN E_WORKFLOW_NOT_FOUND
  ELSE IF workflow_id \notin DOMAIN ws.stores[owner].workflows THEN E_WORKFLOW_NOT_FOUND
  ELSE IF ws.stores[owner].workflows[workflow_id].owner # owner THEN E_NOT_OWNER
  ELSE IF ws.stores[owner].workflows[workflow_id].is_locked THEN E_WORKFLOW_LOCKED
  ELSE 0

\* variant of the definition below: the completion is written to every store that holds the id
complete_execution_all_owners(ws, owner, workflow_id, total_steps, t) ==
  Emit([ws EXCEPT !.stores =
          [b \in DOMAIN @ |->
             IF @[b].exists /\ workflow_id \in DOMAIN @[b].workflows
             THEN [@[b] EXCEPT !.workflows[workflow_id].last_executed_at = t,
                               !.workflows[workflow_id].is_locked = FALSE]
             ELSE @[b]]],
       WorkflowCompletedEvent(workflow_id, total_steps, TRUE))

\* variant of the definition below: the lock is not cleared at the end of an execution
complete_execution_keeps_lock(ws, owner, workflow_id, total_steps, t) ==
  Emit([ws EXCEPT !.stores[owner].workflows[workflow_id].last_executed_at = t],
       WorkflowCompletedEvent(workflow_id, total_steps, TRUE))

\* The end of execute_workflow, after the walk has returned total_steps.
complete_execution(ws, owner, workflow_id, total_steps, t) ==
  Emit([ws EXCEPT !.stores[owner].workflows[workflow_id].last_executed_at = t,
                  !.stores[owner].workflows[workflow_id].is_locked = FALSE],
       WorkflowCompletedEvent(workflow_id, total_steps, TRUE))

\* execute_workflow on the work state of the running transaction, at block
\* time t.
execute_workflow(ws, owner, workflow_id, t) ==
  LET code == execute_asserts(ws, owner, workflow_id)
  IN IF code # 0 THEN Abort(ws, code)
     ELSE LET workflow == ws.stores[owner].workflows[workflow_id]
              locked == [ws EXCEPT
                           !.stores[owner].workflows[workflow_id].is_locked = TRUE]
              context == [workflow_id |-> workflow_id, current_depth |-> 0,
                          owner |-> owner]
              w == walk_and_execute(locked, owner, workflow.nodes,
                                    workflow.start_node_id, context)
          IN IF w.ws.abort # 0 THEN w.ws
             ELSE complete_execution(w.ws, owner, workflow_id, w.steps, t)

\* variant of the definition below: the entry is left in the table
delete_workflow_keeps(ws, owner, workflow_id) ==
  IF ~ws.stores[owner].exists THEN Abort(ws, E_WORKFLOW_NOT_FOUND)
  ELSE IF workflow_id \notin DOMAIN ws.stores[owner].workflows
  THEN Abort(ws, E_WORKFLOW_NOT_FOUND)
  ELSE ws

\* delete_workflow on the work state of the running transaction
delete_workflow(ws, owner, workflow_id) ==
  IF ~ws.stores[owner].exists THEN Abort(ws, E_WORKFLOW_NOT_FOUND)
  ELSE IF workflow_id \notin DOMAIN ws.stores[owner].workflows
  THEN Abort(ws, E_WORKFLOW_NOT_FOUND)
  ELSE [ws EXCEPT !.stores[owner].workflows =
          [k \in (DOMAIN @) \ {workflow_id} |-> @[k]]]

(***************************************************************************)
(* Transaction inputs.                                                     *)
(***************************************************************************)
Args(node_ids, node_types, target_addresses, amounts, next_node_counts, flat_next_node_ids) ==
  [node_ids |-> node_ids, node_types |-> node_types,
   target_addresses |-> target_addresses, amounts |-> amounts,
   next_node_counts |-> next_node_counts, flat_next_node_ids |-> flat_next_node_ids]

NoArgs == Args(<<>>, <<>>, <<>>, <<>>, <<>>, <<>>)

\* n nodes 1..n, node i linked to node i+1, the first of type head_type with
\* amount head_amount, the others WAIT nodes
ChainArgs(n, head_type, head_amount) ==
  Args([i \in 1..n |-> i],
       [i \in 1..n |-> IF i = 1 THEN head_type ELSE NODE_TYPE_WAIT],
       [i \in 1..n |-> ZeroAddress],
       [i \in 1..n |-> IF i = 1 THEN head_amount ELSE 0],
       [i \in 1..n |-> IF i < n THEN 1 ELSE 0],
       [i \in 1..(n - 1) |-> i + 1])

\* a node-type byte no constant of the module names
UnknownType == 99
\* the threshold of the BALANCE_CHECK nodes of the graphs below
Threshold == 2
\* the amounts the transfers of the runs move
Amounts == {2}

\* Graphs for register_and_execute_workflow; `to` is the signer's counterparty.
\* Chains at and just over the recursion limit, behind a BALANCE_CHECK that
\* fails while the signer's balance is under the threshold:
GraphChain20 == ChainArgs(MAX_RECURSION_DEPTH, NODE_TYPE_BALANCE_CHECK, Threshold)
GraphChain21 == ChainArgs(MAX_RECURSION_DEPTH + 1, NODE_TYPE_BALANCE_CHECK, Threshold)
\* an unknown node type in front of a transfer
GraphUnknown(to) ==
  Args(<<1, 2>>, <<UnknownType, NODE_TYPE_TRANSFER>>, <<ZeroAddress, to>>, <<0, 2>>,
       <<1, 0>>, <<2>>)
\* a transfer, then a balance check, then an unimplemented action
GraphSwap(to) ==
  Args(<<1, 2, 3>>, <<NODE_TYPE_TRANSFER, NODE_TYPE_BALANCE_CHECK, NODE_TYPE_SWAP>>,
       <<to, ZeroAddress, ZeroAddress>>, <<2, Threshold, 0>>, <<1, 1, 0>>, <<2, 3>>)
\* a diamond: node 4, a transfer, is reached along two paths
GraphDiamond(to) ==
  Args(<<1, 2, 3, 4>>,
       <<NODE_TYPE_WAIT, NODE_TYPE_END, NODE_TYPE_WAIT, NODE_TYPE_TRANSFER>>,
       <<ZeroAddress, ZeroAddress, ZeroAddress, to>>, <<0, 0, 0, 2>>,
       <<2, 1, 1, 0>>, <<2, 3, 4, 4>>)
\* a transfer to an address without a coin store
GraphNoCoinStore ==
  Args(<<1>>, <<NODE_TYPE_TRANSFER>>, <<ZeroAddress>>, <<0>>, <<0>>, <<>>)
\* a successor that is no node of the graph
GraphMissingNode ==
  Args(<<1>>, <<NODE_TYPE_WAIT>>, <<ZeroAddress>>, <<0>>, <<1>>, <<5>>)

\* the graphs each signer submits in SpecChain
GraphsOf ==
  [a \in {"A", "B"} |->
     IF a = "A"
     THEN {GraphChain20, GraphChain21, GraphUnknown("B"), GraphSwap("B"),
           GraphDiamond("B"), GraphNoCoinStore, GraphMissingNode}
     ELSE {GraphChain20, GraphChain21, GraphUnknown("A")}]

(***************************************************************************)
(* Transactions.  A transaction that aborts changes nothing; one that      *)
(* returns commits its work state.  A run is followed up to and including  *)
(* its first aborted transaction: the transactions after an aborted one    *)
(* start from the committed state it started from.                         *)
(***************************************************************************)
Running == lastTx.abort = 0

\* variant of the definition below: the writes of an aborted transaction are kept
TxOutcomeNoRollback(pre, ws) == ws

TxOutcome(pre, ws) == IF ws.abort = 0 THEN ws ELSE pre

\* The transaction `op` of `caller`, which leaves the work state ws (bound
\* once to `done`, the work state when the entry function ends).
Submit(op, caller, workflow_id, recipient, amount, args, ws) ==
  /\ Running
  /\ \E done \in {ws} :
       LET post == TxOutcome(WorkState(stores, balance, events), done)
       IN /\ done.abort # 0 \/ commits < MaxCommits
          /\ stores' = post.stores
          /\ balance' = post.balance
          /\ events' = post.events
          /\ commits' = IF done.abort = 0 THEN commits + 1 ELSE commits
          /\ lastTx' = [op |-> op, caller |-> caller, workflow_id |-> workflow_id,
                        recipient |-> recipient, amount |-> amount, args |-> args,
                        abort |-> done.abort, evBase |-> Len(events)]
  /\ UNCHANGED <<now, config, users, payments, clock, lastReq, svcVars>>

RegisterSimpleTransferWorkflow(account, recipient, amount) ==
  LET c == create_simple_transfer_workflow_internal(
             WorkState(stores, balance, events), account, recipient, amount, now)
  IN Submit("register_simple_transfer_workflow", account, c.workflow_id,
            recipient, amount, NoArgs, c.ws)

RegisterAndExecuteSimpleTransferWorkflow(account, recipient, amount) ==
  LET c == create_simple_transfer_workflow_internal(
             WorkState(stores, balance, events), account, recipient, amount, now)
  IN Submit("register_and_execute_simple_transfer_workflow", account, c.workflow_id,
            recipient, amount, NoArgs, execute_workflow(c.ws, account, c.workflow_id, now))

RegisterAndExecuteWorkflow(account, args) ==
  LET c == create_workflow_internal(WorkState(stores, balance, events), account, args, now)
  IN Submit("register_and_execute_workflow", account, c.workflow_id, ZeroAddress, 0, args,
            IF c.ws.abort # 0 THEN c.ws
            ELSE execute_workflow(c.ws, account, c.workflow_id, now))

ExecuteWorkflow(account, workflow_id) ==
  Submit("execute_workflow", account, workflow_id, ZeroAddress, 0, NoArgs,
         execute_workflow(WorkState(stores, balance, events), account, workflow_id, now))

DeleteWorkflow(account, workflow_id) ==
  Submit("delete_workflow", account, workflow_id, ZeroAddress, 0, NoArgs,
         delete_workflow(WorkState(stores, balance, events), account, workflow_id))

\* the block timestamp advances between transactions
Tick ==
  /\ Running
  /\ now < StartTime + MaxTime
  /\ now' = now + 1
  /\ UNCHANGED <<stores, balance, events, lastTx, commits, config, users, payments, clock, lastReq, svcVars>>

(***************************************************************************)
(* The payment gate of the backend: AptosService.verifyPayment,            *)
(* checkRecentPayment and storePayment, the requirePayment middleware and  *)
(* POST /api/payment/verify.  Time is counted in hours.                    *)
(***************************************************************************)
\* config.aptosPaymentExpiryHours and config.aptosPaymentAmount, scaled down
ExpiryHours == 2
RequiredAmount == 2
\* the clock runs from 0 to MaxClock; the payments table holds up to MaxRows
MaxClock == 3
MaxRows == 2

sellerAddress == "0x5e11e5"
aptosNetwork == "devnet"
requiredAmount == RequiredAmount
expiryHours == ExpiryHours

\* Wallet addresses as the strings that requests and transactions carry;
\* "0xA" and "0xa" spell the address of one account.
RequestSenders == {"0xa", "0xA", "0xb"}
AccountOf(address) == IF address \in {"0xa", "0xA"} THEN "a" ELSE address

Configs ==
  {[nodeEnv |-> "development", skipPaymentInDev |-> TRUE],
   [nodeEnv |-> "development", skipPaymentInDev |-> FALSE],
   [nodeEnv |-> "production", skipPaymentInDev |-> TRUE]}
DefaultConfig == [nodeEnv |-> "development", skipPaymentInDev |-> FALSE]

\* ---- the ledger as the fullnode reports it ----
VmStatuses == <<"Executed successfully", "Move abort in 0x1::coin: EINSUFFICIENT_BALANCE">>
CoinTransfer ==
  [type |-> "user_transaction", ptype |-> "entry_function_payload",
   function |-> "0x1::coin::transfer",
   type_arguments |-> <<"0x1::aptos_coin::AptosCoin">>]
\* the coin transfer and a transfer through another entry function
Shapes == <<CoinTransfer, [CoinTransfer EXCEPT !.function = "0x1::aptos_account::transfer"]>>
\* one more transaction for each other clause of the test, failing alone
OtherShapes ==
  << [CoinTransfer EXCEPT !.type = "block_metadata_transaction"],
     [CoinTransfer EXCEPT !.ptype = "script_payload"],
     [CoinTransfer EXCEPT !.type_arguments = <<"0x1::other_coin::OtherCoin">>],
     [CoinTransfer EXCEPT !.type_arguments = <<>>] >>
Recipients == <<sellerAddress, "0xb">>
PaidAmounts == <<RequiredAmount, RequiredAmount + 1, RequiredAmount - 1>>
TxSenders == <<"0xa", "0xb">>

\* Transaction hashes, numbered: first every combination of a status, a shape,
\* a recipient, an amount and a sender, then the other shapes, then a hash the
\* fullnode does not know, one whose lookup throws, and a pending transaction.
NumTx == Len(VmStatuses) * Len(Shapes) * Len(Recipients) * Len(PaidAmounts) * Len(TxSenders)
HashNull == NumTx + Len(OtherShapes)
HashThrows == HashNull + 1
HashPending == HashNull + 2
Hashes == 0..HashPending

Digit(h, below, seq) == seq[((h \div below) % Len(seq)) + 1]

Transaction(shape, vm_status, sender, recipient, amount) ==
  [type |-> shape.type, vm_status |-> vm_status, sender |-> sender,
   payload |-> [type |-> shape.ptype, function |-> shape.function,
                type_arguments |-> shape.type_arguments,
                arguments |-> <<recipient, ToString(amount)>>]]

\* the response of the fullnode for a hash below HashNull
TransactionAt(h) ==
  IF h < NumTx
  THEN Transaction(
         Digit(h, Len(VmStatuses), Shapes),
         Digit(h, 1, VmStatuses),
         Digit(h, Len(VmStatuses) * Len(Shapes) * Len(Recipients) * Len(PaidAmounts),
               TxSenders),
         Digit(h, Len(VmStatuses) * Len(Shapes), Recipients),
         Digit(h, Len(VmStatuses) * Len(Shapes) * Len(Recipients), PaidAmounts))
  ELSE Transaction(OtherShapes[h - NumTx + 1], VmStatuses[1], TxSenders[1],
                   sellerAddress, RequiredAmount)

\* a transaction still in the mempool has no vm_status
PendingTransaction ==
  [type |-> "pending_transaction", sender |-> "0xa",
   payload |-> [type |-> "entry_function_payload", function |-> "0x1::coin::transfer",
                type_arguments |-> <<"0x1::aptos_coin::AptosCoin">>,
                arguments |-> <<sellerAddress, ToString(RequiredAmount)>>]]

\* this.aptos.getTransactionByHash: a transaction, nothing, or an exception
getTransactionByHash(txHash) ==
  IF txHash = HashThrows THEN [thrown |-> TRUE, message |-> "fetch failed"]
  ELSE IF txHash = HashNull THEN [thrown |-> FALSE, found |-> FALSE]
  ELSE IF txHash = HashPending
  THEN [thrown |-> FALSE, found |-> TRUE, transaction |-> PendingTransaction]
  ELSE [thrown |-> FALSE, found |-> TRUE, transaction |-> TransactionAt(txHash)]

\* BigInt(amount) of the decimal string in payload.arguments
BigInt(amount) == CHOOSE n \in 0..(RequiredAmount + 1) : ToString(n) = amount

Invalid(error) == [valid |-> FALSE, error |-> error, amount |-> 0]

\* variant of the definition below: the sender of the transaction is not compared with senderAddress
verifyPaymentAnySender(txHash, senderAddress) ==
  LET fetched == getTransactionByHash(txHash)
  IN IF fetched.thrown THEN Invalid(fetched.message)
     ELSE IF ~fetched.found THEN Invalid("Transaction not found")
     ELSE LET transaction == fetched.transaction
              payload == transaction.payload
          IN IF ~("vm_status" \in DOMAIN transaction
                  /\ transaction.vm_status = "Executed successfully")
             THEN Invalid("Transaction failed on blockchain")
             ELSE IF /\ transaction.type = "user_transaction"
                     /\ payload.type = "entry_function_payload"
                     /\ payload.function = "0x1::coin::transfer"
                     /\ Len(payload.type_arguments) > 0
                     /\ payload.type_arguments[1] = "0x1::aptos_coin::AptosCoin"
             THEN IF payload.arguments[1] # sellerAddress
                  THEN Invalid("Payment sent to wrong address")
                  ELSE IF BigInt(payload.arguments[2]) < requiredAmount
                  THEN Invalid("Insufficient payment")
                  ELSE [valid |-> TRUE, error |-> "", amount |-> BigInt(payload.arguments[2])]
             ELSE Invalid("Not a valid APT transfer transaction")

\* AptosService.verifyPayment
verifyPayment(txHash, senderAddress) ==
  LET fetched == getTransactionByHash(txHash)
  IN IF fetched.thrown THEN Invalid(fetched.message)
     ELSE IF ~fetched.found THEN Invalid("Transaction not found")
     ELSE LET transaction == fetched.transaction
              payload == transaction.payload
          IN IF ~("vm_status" \in DOMAIN transaction
                  /\ transaction.vm_status = "Executed successfully")
             THEN Invalid("Transaction failed on blockchain")
             ELSE IF /\ transaction.type = "user_transaction"
                     /\ payload.type = "entry_function_payload"
                     /\ payload.function = "0x1::coin::transfer"
                     /\ Len(payload.type_arguments) > 0
                     /\ payload.type_arguments[1] = "0x1::aptos_coin::AptosCoin"
             THEN IF payload.arguments[1] # sellerAddress
                  THEN Invalid("Payment sent to wrong address")
                  ELSE IF BigInt(payload.arguments[2]) < requiredAmount
                  THEN Invalid("Insufficient payment")
                  ELSE IF transaction.sender # senderAddress
                  THEN Invalid("Sender address mismatch")
                  ELSE [valid |-> TRUE, error |-> "", amount |-> BigInt(payload.arguments[2])]
             ELSE Invalid("Not a valid APT transfer transaction")

\* the rows of payments joined with users
walletOf(us, payment) == us[payment.userId].walletAddress

\* variant of the definition below: the rows are not filtered by time
checkRecentPaymentAnyTime(us, ps, walletAddress, t) ==
  LET found == {i \in DOMAIN ps :
                  /\ walletOf(us, ps[i]) = walletAddress
                  /\ ps[i].status = "VERIFIED"}
      first == {i \in found : \A j \in found : ps[j].verifiedAt <= ps[i].verifiedAt}
  IN IF found = {} THEN {[hasValidPayment |-> FALSE, paymentId |-> 0]}
     ELSE {[hasValidPayment |-> TRUE, paymentId |-> ps[i].id] : i \in first}

\* AptosService.checkRecentPayment at time t: what findFirst may return, the
\* order among rows of equal verifiedAt being the database's choice
checkRecentPayment(us, ps, walletAddress, t) ==
  LET expiryDate == t - expiryHours
      found == {i \in DOMAIN ps :
                  /\ walletOf(us, ps[i]) = walletAddress
                  /\ ps[i].status = "VERIFIED"
                  /\ ps[i].verifiedAt >= expiryDate
                  /\ ps[i].expiresAt >= t}
      first == {i \in found : \A j \in found : ps[j].verifiedAt <= ps[i].verifiedAt}
  IN IF found = {} THEN {[hasValidPayment |-> FALSE, paymentId |-> 0]}
     ELSE {[hasValidPayment |-> TRUE, paymentId |-> ps[i].id] : i \in first}

\* variant of the definition below: a hash already stored has its row stamped anew
storePaymentRefreshed(us, ps, walletAddress, txHash, amount, t) ==
  LET known == {u \in DOMAIN us : us[u].walletAddress = walletAddress}
      us1 == IF known = {} THEN Append(us, [id |-> Len(us) + 1, walletAddress |-> walletAddress])
             ELSE us
      user == IF known = {} THEN us1[Len(us1)] ELSE us[CHOOSE u \in known : TRUE]
      existing == {i \in DOMAIN ps : ps[i].txHash = txHash}
  IN IF existing # {}
     THEN [users |-> us1,
           payments |-> [i \in DOMAIN ps |->
                           IF i \in existing
                           THEN [ps[i] EXCEPT !.verifiedAt = t, !.expiresAt = t + expiryHours]
                           ELSE ps[i]],
           created |-> FALSE,
           paymentId |-> ps[CHOOSE i \in existing : TRUE].id, userId |-> user.id]
     ELSE [users |-> us1,
           payments |-> Append(ps, [id |-> Len(ps) + 1, userId |-> user.id,
                                    txHash |-> txHash, amount |-> amount,
                                    status |-> "VERIFIED", verifiedAt |-> t,
                                    expiresAt |-> t + expiryHours]),
           created |-> TRUE, paymentId |-> Len(ps) + 1, userId |-> user.id]

\* AptosService.storePayment at time t, run to its end without interruption
storePayment(us, ps, walletAddress, txHash, amount, t) ==
  LET known == {u \in DOMAIN us : us[u].walletAddress = walletAddress}
      us1 == IF known = {} THEN Append(us, [id |-> Len(us) + 1, walletAddress |-> walletAddress])
             ELSE us
      user == IF known = {} THEN us1[Len(us1)] ELSE us[CHOOSE u \in known : TRUE]
      existing == {i \in DOMAIN ps : ps[i].txHash = txHash}
  IN IF existing # {}
     THEN [users |-> us1, payments |-> ps, created |-> FALSE,
           paymentId |-> ps[CHOOSE i \in existing : TRUE].id, userId |-> user.id]
     ELSE [users |-> us1,
           payments |-> Append(ps, [id |-> Len(ps) + 1, userId |-> user.id,
                                    txHash |-> txHash, amount |-> amount,
                                    status |-> "VERIFIED", verifiedAt |-> t,
                                    expiresAt |-> t + expiryHours]),
           created |-> TRUE, paymentId |-> Len(ps) + 1, userId |-> user.id]

\* ---- requests and responses ----
NoPayment == [paymentId |-> 0, userId |-> 0]
NoDetails == [sellerAddress |-> "", requiredAmount |-> "", network |-> ""]
NoHash == 0 - 1

\* What a handler did with a request: the status it sent (0: it sent none),
\* whether it called next(), what it attached to the request, and for
\* POST /verify what verifyPayment returned.
Response(handler, sender, txHash, status, next, payment, details, message) ==
  [handler |-> handler, sender |-> sender, txHash |-> txHash, status |-> status,
   next |-> next, payment |-> payment, details |-> details, message |-> message,
   verification |-> Invalid("")]

NoReq == Response("none", "", NoHash, 0, FALSE, NoPayment, NoDetails, "")

\* no request is being handled
Idle == lastReq = NoReq

\* the txHash of a development payment: dev_<Date.now()>_<random>, new each time
DevHash(ps) == 0 - (Len(ps) + 2)

\* requirePayment(req, res, next) for a body with this sender ("" for none);
\* dbOk = FALSE: a database call of the request throws.
RequirePayment(sender, dbOk) ==
  /\ Idle
  /\ IF sender = ""
     THEN /\ lastReq' = Response("requirePayment", sender, NoHash, 400, FALSE,
                                 NoPayment, NoDetails, "Sender wallet address is required")
          /\ UNCHANGED <<users, payments>>
     ELSE IF config.nodeEnv = "development" /\ config.skipPaymentInDev
     THEN IF dbOk
          THEN \E devPayment \in {storePayment(users, payments, sender,
                                               DevHash(payments), 0, clock)} :
                 /\ Len(payments) < MaxRows
                 /\ users' = devPayment.users
                 /\ payments' = devPayment.payments
                 /\ lastReq' = Response("requirePayment", sender, NoHash, 0, TRUE,
                                        [paymentId |-> devPayment.paymentId,
                                         userId |-> devPayment.userId],
                                        NoDetails, "")
          ELSE /\ lastReq' = Response("requirePayment", sender, NoHash, 500, FALSE,
                                      NoPayment, NoDetails, "Failed to verify payment")
               /\ UNCHANGED <<users, payments>>
     ELSE IF dbOk
     THEN /\ \E paymentCheck \in checkRecentPayment(users, payments, sender, clock) :
               lastReq' =
                 IF ~paymentCheck.hasValidPayment
                 THEN Response("requirePayment", sender, NoHash, 402, FALSE, NoPayment,
                               [sellerAddress |-> sellerAddress,
                                requiredAmount |-> ToString(requiredAmount),
                                network |-> aptosNetwork],
                               "No valid payment found")
                 ELSE Response("requirePayment", sender, NoHash, 0, TRUE,
                               [paymentId |-> paymentCheck.paymentId, userId |-> 0],
                               NoDetails, "")
          /\ UNCHANGED <<users, payments>>
     ELSE /\ lastReq' = Response("requirePayment", sender, NoHash, 500, FALSE,
                                 NoPayment, NoDetails, "Failed to verify payment")
          /\ UNCHANGED <<users, payments>>
  /\ UNCHANGED <<config, clock>>
  /\ UNCHANGED <<chainVars, svcVars>>

\* POST /api/payment/verify for a body that the schema accepts
VerifyPaymentRoute(txHash, sender, dbOk) ==
  /\ Idle
  /\ \E verification \in {verifyPayment(txHash, sender)} :
       IF ~verification.valid
       THEN /\ lastReq' = [Response("verify", sender, txHash, 400, FALSE, NoPayment,
                                    NoDetails, verification.error)
                             EXCEPT !.verification = verification]
            /\ UNCHANGED <<users, payments>>
       ELSE IF ~dbOk
       THEN /\ lastReq' = [Response("verify", sender, txHash, 500, FALSE, NoPayment,
                                    NoDetails, "Failed to verify payment")
                             EXCEPT !.verification = verification]
            /\ UNCHANGED <<users, payments>>
       ELSE \E stored \in {storePayment(users, payments, sender, txHash,
                                        verification.amount, clock)} :
              /\ stored.created => Len(payments) < MaxRows
              /\ users' = stored.users
              /\ payments' = stored.payments
              /\ lastReq' = [Response("verify", sender, txHash, 200, FALSE,
                                      [paymentId |-> stored.paymentId,
                                       userId |-> stored.userId],
                                      NoDetails, "Payment verified successfully")
                               EXCEPT !.verification = verification]
  /\ UNCHANGED <<config, clock>>
  /\ UNCHANGED <<chainVars, svcVars>>

\* POST /api/payment/verify for a body that the schema rejects: parse throws
VerifyPaymentRouteMalformed ==
  /\ Idle
  /\ lastReq' = Response("verify", "", NoHash, 500, FALSE, NoPayment, NoDetails,
                         "Failed to verify payment")
  /\ UNCHANGED <<config, users, payments, clock>>
  /\ UNCHANGED <<chainVars, svcVars>>

\* the response goes out and the server takes the next request
Respond ==
  /\ ~Idle
  /\ lastReq' = NoReq
  /\ UNCHANGED <<config, users, payments, clock>>
  /\ UNCHANGED <<chainVars, svcVars>>

\* an hour passes
ClockTick ==
  /\ Idle
  /\ clock < MaxClock
  /\ clock' = clock + 1
  /\ UNCHANGED <<config, users, payments, lastReq>>
  /\ UNCHANGED <<chainVars, svcVars>>

\* the hashes sent to the gated server: the executed coin transfers to the
\* seller, of any amount and sender, and the hash the fullnode does not know
PaymentHashes ==
  {h \in 0..(NumTx - 1) : h % (Len(VmStatuses) * Len(Shapes) * Len(Recipients)) = 0}
    \cup {HashNull}

NextPay ==
  \/ \E sender \in RequestSenders \cup {""} : \E dbOk \in BOOLEAN :
       RequirePayment(sender, dbOk)
  \/ \E txHash \in PaymentHashes : \E sender \in RequestSenders : \E dbOk \in BOOLEAN :
       VerifyPaymentRoute(txHash, sender, dbOk)
  \/ VerifyPaymentRouteMalformed
  \/ Respond
  \/ ClockTick

\* POST /api/payment/verify alone, for every hash of the ledger
NextVerify ==
  \/ \E txHash \in Hashes : \E sender \in RequestSenders : \E dbOk \in BOOLEAN :
       VerifyPaymentRoute(txHash, sender, dbOk)
  \/ VerifyPaymentRouteMalformed
  \/ Respond

(***************************************************************************)
(* AptosService.storePayment call by call: a call is suspended at each of  *)
(* its database calls, and the calls of POST /api/payment/verify that are  *)
(* in flight take their database calls in any order.                       *)
(***************************************************************************)
\* the calls of storePayment of one run
MaxCalls == 3
Calls == 1..MaxCalls

\* the transactions POST /verify stores: those verifyPayment accepts for
\* their sender
VerifiedHashes ==
  {h \in 0..(NumTx - 1) : verifyPayment(h, TransactionAt(h).sender).valid}

NoCall == [pc |-> "idle", walletAddress |-> "", txHash |-> NoHash, amount |-> 0,
           userId |-> 0, paymentId |-> 0, storedAtStart |-> 0]

\* the id of the payments row of the hash, 0 if there is none
paymentOfHash(ps, txHash) ==
  IF \E i \in DOMAIN ps : ps[i].txHash = txHash
  THEN ps[CHOOSE i \in DOMAIN ps : ps[i].txHash = txHash].id
  ELSE 0

\* the id of the users row of the wallet, 0 if there is none
userOfWallet(us, walletAddress) ==
  IF \E u \in DOMAIN us : us[u].walletAddress = walletAddress
  THEN us[CHOOSE u \in DOMAIN us : us[u].walletAddress = walletAddress].id
  ELSE 0

\* variant of the definition below: the table has no unique index on txHash
payments_txHash_free(ps, txHash) == TRUE

\* CREATE UNIQUE INDEX "payments_txHash_key": whether a row of the hash may
\* be inserted
payments_txHash_key(ps, txHash) == paymentOfHash(ps, txHash) = 0

\* CREATE UNIQUE INDEX "users_walletAddress_key"
users_walletAddress_key(us, walletAddress) == userOfWallet(us, walletAddress) = 0

\* POST /verify calls storePayment(sender, txHash, verification.amount); the
\* call runs up to its first await, prisma.user.findUnique
StorePaymentCall(c, txHash) ==
  /\ calls[c].pc = "idle"
  /\ calls' = [calls EXCEPT ![c] =
       [NoCall EXCEPT !.pc = "user.findUnique",
                      !.walletAddress = TransactionAt(txHash).sender,
                      !.txHash = txHash,
                      !.amount = verifyPayment(txHash, TransactionAt(txHash).sender).amount,
                      !.storedAtStart = paymentOfHash(payments, txHash)]]
  /\ UNCHANGED <<users, payments>>
  /\ UNCHANGED storeFrame

\* prisma.user.findUnique answers; the call goes on to its next database call
StorePaymentFindUser(c) ==
  /\ calls[c].pc = "user.findUnique"
  /\ \E found \in {userOfWallet(users, calls[c].walletAddress)} :
       calls' = [calls EXCEPT ![c].userId = found,
                              ![c].pc = IF found = 0 THEN "user.create"
                                        ELSE "payment.findUnique"]
  /\ UNCHANGED <<users, payments>>
  /\ UNCHANGED storeFrame

\* prisma.user.create answers, or throws on the unique index
StorePaymentCreateUser(c) ==
  /\ calls[c].pc = "user.create"
  /\ IF users_walletAddress_key(users, calls[c].walletAddress)
     THEN /\ users' = Append(users, [id |-> Len(users) + 1,
                                     walletAddress |-> calls[c].walletAddress])
          /\ calls' = [calls EXCEPT ![c].userId = Len(users) + 1,
                                    ![c].pc = "payment.findUnique"]
     ELSE /\ calls' = [calls EXCEPT ![c].pc = "threw"]
          /\ UNCHANGED users
  /\ UNCHANGED payments
  /\ UNCHANGED storeFrame

\* prisma.payment.findUnique answers; an existing payment is returned
StorePaymentFindPayment(c) ==
  /\ calls[c].pc = "payment.findUnique"
  /\ \E existingPayment \in {paymentOfHash(payments, calls[c].txHash)} :
       calls' = [calls EXCEPT ![c].paymentId = existingPayment,
                              ![c].pc = IF existingPayment # 0 THEN "returned"
                                        ELSE "payment.create"]
  /\ UNCHANGED <<users, payments>>
  /\ UNCHANGED storeFrame

\* prisma.payment.create answers, or throws on the unique index
StorePaymentCreatePayment(c) ==
  /\ calls[c].pc = "payment.create"
  /\ IF payments_txHash_key(payments, calls[c].txHash)
     THEN /\ payments' = Append(payments,
                [id |-> Len(payments) + 1, userId |-> calls[c].userId,
                 txHash |-> calls[c].txHash, amount |-> calls[c].amount,
                 status |-> "VERIFIED", verifiedAt |-> clock,
                 expiresAt |-> clock + expiryHours])
          /\ calls' = [calls EXCEPT ![c].paymentId = Len(payments) + 1,
                                    ![c].pc = "returned"]
     ELSE /\ calls' = [calls EXCEPT ![c].pc = "threw"]
          /\ UNCHANGED payments
  /\ UNCHANGED users
  /\ UNCHANGED storeFrame

NextStore ==
  \/ \E c \in Calls : \E txHash \in VerifiedHashes : StorePaymentCall(c, txHash)
  \/ \E c \in Calls : StorePaymentFindUser(c)
  \/ \E c \in Calls : StorePaymentCreateUser(c)
  \/ \E c \in Calls : StorePaymentFindPayment(c)
  \/ \E c \in Calls : StorePaymentCreatePayment(c)

(***************************************************************************)
(* rateLimitByWallet.  Time is counted in units of which MsPerSecond make  *)
(* a second and SecondsPerHour seconds make the hour of the window.        *)
(***************************************************************************)
\* config.rateLimitRequestsPerHour, scaled down
RateLimitRequestsPerHour == 2
MsPerSecond == 2
SecondsPerHour == 2
\* requests a wallet sends in one window beyond the threshold
MaxOverLimit == 1
HourMs == SecondsPerHour * MsPerSecond
\* the clock of the rate limiter runs from 0 to MaxNowMs
MaxNowMs == HourMs + 1

RateWallets == {"0xa", "0xb"}

NoWindow == [open |-> FALSE, windowStart |-> 0, requests |-> 0, failed |-> FALSE]
NoRate == [sender |-> "", status |-> 0, next |-> FALSE, retryAfter |-> 0]

\* Math.ceil(ms / 1000) for ms >= 0
CeilSeconds(ms) == (ms + MsPerSecond - 1) \div MsPerSecond

\* prisma.rateLimit.findFirst({ walletAddress, windowStart: { gte } }): the
\* rows the database may return, in no stated order
rateLimitFindFirst(rows, sender, windowStart) ==
  {i \in DOMAIN rows : rows[i].walletAddress = sender /\ rows[i].windowStart >= windowStart}

\* the id of a row to be created: one the table does not hold (the rows stand
\* in the order of their creation)
rateLimitId(rows) == IF rows = <<>> THEN 1 ELSE rows[Len(rows)].id + 1

\* The window the wallet's request at time t falls in, and its place in it:
\* the window a request opened lasts HourMs, and a request after it has
\* expired opens the next.  A wallet is followed up to the first of its
\* requests that meets a database failure.
SeenAt(seen, t, dbOk) ==
  IF ~dbOk THEN [NoWindow EXCEPT !.failed = TRUE]
  ELSE IF seen.open /\ t <= seen.windowStart + HourMs
  THEN [seen EXCEPT !.requests = @ + 1]
  ELSE [open |-> TRUE, windowStart |-> t, requests |-> 1, failed |-> FALSE]

\* variant of the definition below: a request is refused only above the limit
limitReachedAbove(requestCount) == requestCount > RateLimitRequestsPerHour

\* rateLimit.requestCount >= config.rateLimitRequestsPerHour
limitReached(requestCount) == requestCount >= RateLimitRequestsPerHour

\* variant of the definition below: the catch block answers 500
rateLimitCatchClosed(sender) == [NoRate EXCEPT !.sender = sender, !.status = 500]

\* the catch block of rateLimitByWallet: the error is logged and next() called
rateLimitCatch(sender) == [NoRate EXCEPT !.sender = sender, !.next = TRUE]

\* rateLimitByWallet(req, res, next) for a body with this sender ("" for
\* none); dbOk = FALSE: a database call of the request throws.
RateLimitByWallet(sender, dbOk) ==
  /\ IF sender = ""
     THEN /\ lastRate' = [NoRate EXCEPT !.next = TRUE]
          /\ UNCHANGED <<rateLimits, rateSeen>>
     ELSE /\ ~rateSeen[sender].failed
          /\ SeenAt(rateSeen[sender], nowMs, dbOk).requests
               <= RateLimitRequestsPerHour + MaxOverLimit
          /\ rateSeen' = [rateSeen EXCEPT ![sender] = SeenAt(@, nowMs, dbOk)]
          /\ IF ~dbOk
             THEN /\ lastRate' = rateLimitCatch(sender)
                  /\ UNCHANGED rateLimits
             ELSE LET found == rateLimitFindFirst(rateLimits, sender, nowMs - HourMs)
                  IN IF found # {}
                     THEN \E i \in found :
                            IF limitReached(rateLimits[i].requestCount)
                            THEN /\ lastRate' =
                                      [sender |-> sender, status |-> 429, next |-> FALSE,
                                       retryAfter |-> CeilSeconds(
                                          rateLimits[i].windowStart + HourMs - nowMs)]
                                 /\ UNCHANGED rateLimits
                            ELSE /\ rateLimits' =
                                      [rateLimits EXCEPT ![i].requestCount = @ + 1]
                                 /\ lastRate' = [NoRate EXCEPT !.sender = sender,
                                                               !.next = TRUE]
                     ELSE /\ rateLimits' = Append(rateLimits,
                               [id |-> rateLimitId(rateLimits), walletAddress |-> sender,
                                requestCount |-> 1, windowStart |-> nowMs])
                          /\ lastRate' = [NoRate EXCEPT !.sender = sender, !.next = TRUE]
  /\ UNCHANGED nowMs
  /\ UNCHANGED rateFrame

\* time passes between two requests
RateTick ==
  /\ nowMs < MaxNowMs
  /\ nowMs' = nowMs + 1
  /\ UNCHANGED <<rateLimits, rateSeen, lastRate>>
  /\ UNCHANGED rateFrame

NextRate ==
  \/ \E sender \in RateWallets \cup {""} : \E dbOk \in BOOLEAN :
       RateLimitByWallet(sender, dbOk)
  \/ RateTick

\* hours of history that cleanupRateLimits keeps
CleanupHours == 2
\* the clock of the runs with cleanupRateLimits runs from 0 to MaxCleanupMs
MaxCleanupMs == CleanupHours * HourMs + 1

\* variant of the definition below: nothing older than now is kept
cleanupCutoffNow(t) == t

\* cutoff.setHours(cutoff.getHours() - 2), on a clock without daylight saving
cleanupCutoff(t) == t - CleanupHours * HourMs

\* windowStart: { lt: cutoff }
olderThan(row, cutoff) == row.windowStart < cutoff

\* cleanupRateLimits(), run between two requests; no request is being
\* answered
CleanupRateLimits ==
  /\ rateLimits' = SelectSeq(rateLimits, LAMBDA row : ~olderThan(row, cleanupCutoff(nowMs)))
  /\ lastRate' = NoRate
  /\ UNCHANGED <<nowMs, rateSeen>>
  /\ UNCHANGED rateFrame

\* time passes between two requests of a run with cleanupRateLimits
CleanupTick ==
  /\ nowMs < MaxCleanupMs
  /\ nowMs' = nowMs + 1
  /\ UNCHANGED <<rateLimits, rateSeen, lastRate>>
  /\ UNCHANGED rateFrame

\* one wallet sends the requests of such a run
NextCleanup ==
  \/ \E sender \in {"0xa", ""} : \E dbOk \in BOOLEAN :
       RateLimitByWallet(sender, dbOk)
  \/ CleanupRateLimits
  \/ CleanupTick

(***************************************************************************)
(* Prompts and generated workflows.  POST /api/generate stores a Prompt    *)
(* row and hands it to the process-prompt job, whose steps the job runner  *)
(* runs one at a time, re-running a step that throws up to Retries times;  *)
(* POST /api/workflow/stream generates within the request.  A workflow     *)
(* document is modelled by its trigger: its type and whether the cron and  *)
(* schedule fields are present.                                            *)
(***************************************************************************)
MaxPrompts == 1
PromptIds == 1 .. MaxPrompts
Retries == 3
PromptSender == "0xa"

\* the id (cuid) of the n-th row
PromptId(n) == "prompt_" \o ToString(n)

Trigger(type, cron, schedule) == [type |-> type, cron |-> cron, schedule |-> schedule]
NoTrigger == Trigger("", FALSE, FALSE)
\* the triggers a generation can return
GeneratedTriggers ==
  {Trigger("manual_trigger", FALSE, FALSE),
   Trigger("schedule_trigger", TRUE, FALSE),
   Trigger("schedule_trigger", TRUE, TRUE)}

\* the prompt texts submitted, and the test of the route's regular expression
\* /every|daily|weekly|monthly|hourly|cron|schedule|at \d|on (monday|...)/i
PromptTexts == {"send 1 APT to bob", "send 1 APT to bob every day"}
hasScheduleKeywords(promptText) == promptText = "send 1 APT to bob every day"

\* aiService.generateWorkflow: its try/catch turns every failure into
\* success: false with the error's message
NoResult == [success |-> FALSE, workflow |-> NoTrigger, error |-> ""]
GenerationError == "AI request failed"
GenerationResults ==
  {[success |-> TRUE, workflow |-> t, error |-> ""] : t \in GeneratedTriggers}
    \cup {[success |-> FALSE, workflow |-> NoTrigger, error |-> GenerationError]}

NoRun == [pc |-> "none", attempts |-> 0, result |-> NoResult,
          shown |-> NoTrigger, failedStep |-> ""]

\* the row of a prompt id in the workflows table, 0 when there is none
workflowOfPrompt(rows, promptId) ==
  IF \E i \in DOMAIN rows : rows[i].promptId = promptId
  THEN CHOOSE i \in DOMAIN rows : rows[i].promptId = promptId
  ELSE 0

\* CREATE UNIQUE INDEX "workflows_promptId_key"
workflows_promptId_key(rows, promptId) == workflowOfPrompt(rows, promptId) = 0

\* prisma.workflow.create({promptId, workflowData, executionStatus: 'DRAFT'})
DraftWorkflow(rows, promptId, workflowData) ==
  [id |-> Len(rows) + 1, promptId |-> promptId, workflowData |-> workflowData,
   executionStatus |-> "DRAFT"]

\* the streaming route's post-processing of a trigger
fixTrigger(trigger, keywords) ==
  IF trigger.type = "schedule_trigger" /\ ~keywords
  THEN Trigger("manual_trigger", FALSE, FALSE)
  ELSE trigger

\* the partial objects of a stream whose last object has this trigger: the
\* fields arrive in the order of the schema (type, then cron)
PartialTriggers(trigger) ==
  <<Trigger("", FALSE, FALSE), Trigger(trigger.type, FALSE, FALSE), trigger>>

\* the trigger node written to the client for a (post-processed) partial
\* trigger: { id, type: triggerType, ...partialObject.trigger }
TriggerNode(trigger, keywords) ==
  LET triggerType == IF trigger.type = "" THEN "manual_trigger" ELSE trigger.type
      corrected == IF triggerType = "schedule_trigger" /\ ~keywords
                   THEN "manual_trigger" ELSE triggerType
  IN [trigger EXCEPT !.type = IF trigger.type = "" THEN corrected ELSE trigger.type]

\* the job runner resumes a run at the step that threw: the steps that
\* returned are not run again
\* variant of the definition below: a retry runs the function from its start
resumeAtStart(step) == "update-status-processing"

resumeAt(step) == step

\* a step of the run threw: it is run again, or the run has failed for good
Thrown(run, step) ==
  IF run.attempts < Retries
  THEN [run EXCEPT !.attempts = @ + 1, !.pc = resumeAt(step)]
  ELSE [run EXCEPT !.pc = "failed", !.failedStep = step]

\* a step of the run returned
Returned(run, next) == [run EXCEPT !.attempts = 0, !.pc = next]

\* The payment the gate attaches to a request of the sender: the routes run
\* after requirePayment found one (req.payment.paymentId).
GatePayments(sender) ==
  {r.paymentId : r \in {x \in checkRecentPayment(users, payments, sender, clock) :
                          x.hasValidPayment}}

\* prisma.prompt.create of a route
NewPrompt(ps, userId, paymentId, promptText, status, route) ==
  [id |-> PromptId(Len(ps) + 1), userId |-> userId, paymentId |-> paymentId,
   promptText |-> promptText, status |-> status, workflowJson |-> NoTrigger,
   errorMessage |-> "", completed |-> FALSE, route |-> route]

\* the routes' "get or create user"
UsersWith(us, sender) ==
  IF userOfWallet(us, sender) = 0
  THEN Append(us, [id |-> Len(us) + 1, walletAddress |-> sender])
  ELSE us

\* POST /api/generate behind the gate: the Prompt row is created PENDING and
\* the event prompt/submitted is sent.  dbOk = FALSE: a database call throws;
\* sendOk = FALSE: inngest.send throws after the row was created.
PostGenerate(promptText, dbOk, sendOk) ==
  /\ Len(prompts) < MaxPrompts
  /\ \E paymentId \in GatePayments(PromptSender) :
       IF ~dbOk
       THEN /\ lastStatus' = 500
            /\ UNCHANGED <<users, prompts, runs>>
       ELSE /\ users' = UsersWith(users, PromptSender)
            /\ prompts' = Append(prompts,
                 NewPrompt(prompts, userOfWallet(users', PromptSender), paymentId,
                           promptText, "PENDING", "generate"))
            /\ IF sendOk
               THEN /\ runs' = [runs EXCEPT ![Len(prompts) + 1] =
                                  [NoRun EXCEPT !.pc = "update-status-processing"]]
                    /\ lastStatus' = 202
               ELSE /\ lastStatus' = 500
                    /\ UNCHANGED runs
  /\ UNCHANGED workflowRows
  /\ UNCHANGED promptFrame

\* step 1, update-status-processing
JobUpdateProcessing(p, throws) ==
  /\ runs[p].pc = "update-status-processing"
  /\ IF throws
     THEN /\ runs' = [runs EXCEPT ![p] = Thrown(@, "update-status-processing")]
          /\ UNCHANGED prompts
     ELSE /\ prompts' = [prompts EXCEPT ![p].status = "PROCESSING"]
          /\ runs' = [runs EXCEPT ![p] = Returned(@, "generate-workflow")]
  /\ UNCHANGED <<users, workflowRows, lastStatus>>
  /\ UNCHANGED promptFrame

\* step 2, generate-workflow, and the branch on its result
JobGenerateWorkflow(p, result) ==
  /\ runs[p].pc = "generate-workflow"
  /\ runs' = [runs EXCEPT ![p] =
       [Returned(@, IF ~result.success \/ result.workflow = NoTrigger
                    THEN "update-status-failed" ELSE "store-workflow")
          EXCEPT !.result = result]]
  /\ UNCHANGED <<users, prompts, workflowRows, lastStatus>>
  /\ UNCHANGED promptFrame

\* step 3a, update-status-failed
JobUpdateFailed(p, throws) ==
  /\ runs[p].pc = "update-status-failed"
  /\ IF throws
     THEN /\ runs' = [runs EXCEPT ![p] = Thrown(@, "update-status-failed")]
          /\ UNCHANGED prompts
     ELSE /\ prompts' = [prompts EXCEPT
               ![p].status = "FAILED",
               ![p].errorMessage = IF runs[p].result.error # ""
                                   THEN runs[p].result.error
                                   ELSE "Failed to generate workflow",
               ![p].completed = TRUE]
          /\ runs' = [runs EXCEPT ![p] = Returned(@, "send-failure-event")]
  /\ UNCHANGED <<users, workflowRows, lastStatus>>
  /\ UNCHANGED promptFrame

\* step 3b, store-workflow, first statement: prisma.prompt.update.  The
\* callback of prisma.$transaction takes no transaction client and writes
\* through the global client, so the statement commits by itself.
JobStoreUpdatePrompt(p, throws) ==
  /\ runs[p].pc = "store-workflow"
  /\ IF throws
     THEN /\ runs' = [runs EXCEPT ![p] = Thrown(@, "store-workflow")]
          /\ UNCHANGED prompts
     ELSE /\ prompts' = [prompts EXCEPT
               ![p].status = "COMPLETED",
               ![p].workflowJson = runs[p].result.workflow,
               ![p].completed = TRUE]
          /\ runs' = [runs EXCEPT ![p].pc = "store-workflow.create"]
  /\ UNCHANGED <<users, workflowRows, lastStatus>>
  /\ UNCHANGED promptFrame

\* step 3b, second statement: prisma.workflow.create, which throws on a
\* database failure and on the unique index of promptId
JobStoreCreateWorkflow(p, throws) ==
  /\ runs[p].pc = "store-workflow.create"
  /\ IF throws \/ ~workflows_promptId_key(workflowRows, prompts[p].id)
     THEN /\ runs' = [runs EXCEPT ![p] = Thrown(@, "store-workflow")]
          /\ UNCHANGED workflowRows
     ELSE /\ workflowRows' = Append(workflowRows,
               DraftWorkflow(workflowRows, prompts[p].id, runs[p].result.workflow))
          /\ runs' = [runs EXCEPT ![p] = Returned(@, "send-success-event")]
  /\ UNCHANGED <<users, prompts, lastStatus>>
  /\ UNCHANGED promptFrame

\* step.sendEvent of either branch, and the return of the function
JobSendEvent(p, throws) ==
  /\ runs[p].pc \in {"send-failure-event", "send-success-event"}
  /\ runs' = [runs EXCEPT ![p] =
       IF throws THEN Thrown(@, runs[p].pc) ELSE Returned(@, "returned")]
  /\ UNCHANGED <<users, prompts, workflowRows, lastStatus>>
  /\ UNCHANGED promptFrame

\* POST /api/workflow/stream behind the gate, up to the Prompt row, which is
\* created PROCESSING.  valid = FALSE: the body lacks prompt or sender (400);
\* dbOk = FALSE: a database call throws and the catch block ends the stream.
PostStream(promptText, valid, dbOk) ==
  /\ Len(prompts) < MaxPrompts
  /\ \E paymentId \in GatePayments(PromptSender) :
       IF ~valid
       THEN /\ lastStatus' = 400
            /\ UNCHANGED <<users, prompts, runs>>
       ELSE IF ~dbOk
       THEN /\ lastStatus' = 200
            /\ UNCHANGED <<users, prompts, runs>>
       ELSE /\ users' = UsersWith(users, PromptSender)
            /\ prompts' = Append(prompts,
                 NewPrompt(prompts, userOfWallet(users', PromptSender), paymentId,
                           promptText, "PROCESSING", "stream"))
            /\ runs' = [runs EXCEPT ![Len(prompts) + 1] =
                          [NoRun EXCEPT !.pc = "streaming"]]
            /\ lastStatus' = 200
  /\ UNCHANGED workflowRows
  /\ UNCHANGED promptFrame

\* The loop over stream.partialObjectStream of a generation ending in this
\* trigger, the trigger node being written for the first-th partial object.
\* Every partial object is post-processed; the last one is the workflow to
\* save.  throws = TRUE: the stream breaks before its end and the catch block
\* ends the response.
StreamGeneration(p, trigger, first, throws) ==
  /\ runs[p].pc = "streaming"
  /\ \E keywords \in {hasScheduleKeywords(prompts[p].promptText)} :
       runs' = [runs EXCEPT
         ![p].shown = TriggerNode(fixTrigger(PartialTriggers(trigger)[first], keywords),
                                  keywords),
         ![p].result = IF throws THEN NoResult
                       ELSE [success |-> TRUE, workflow |-> fixTrigger(trigger, keywords),
                             error |-> ""],
         ![p].pc = IF throws THEN "ended" ELSE "save"]
  /\ UNCHANGED <<users, prompts, workflowRows, lastStatus>>
  /\ UNCHANGED promptFrame

\* prisma.$transaction(async (tx) => ...) of the streaming route: the prompt
\* update and the workflow create through tx commit together or not at all
StreamSave(p, dbOk) ==
  /\ runs[p].pc = "save"
  /\ IF dbOk /\ workflows_promptId_key(workflowRows, prompts[p].id)
     THEN /\ prompts' = [prompts EXCEPT
               ![p].status = "COMPLETED",
               ![p].workflowJson = runs[p].result.workflow,
               ![p].completed = TRUE]
          /\ workflowRows' = Append(workflowRows,
               DraftWorkflow(workflowRows, prompts[p].id, runs[p].result.workflow))
     ELSE UNCHANGED <<prompts, workflowRows>>
  /\ runs' = [runs EXCEPT ![p].pc = "ended"]
  /\ UNCHANGED <<users, lastStatus>>
  /\ UNCHANGED promptFrame

\* GET /api/generate/:promptId for the p-th prompt
GetPrompt(p) ==
  LET prompt == prompts[p]
      w == workflowOfPrompt(workflowRows, prompt.id)
  IN IF prompt.status = "COMPLETED" /\ w # 0
     THEN [status |-> prompt.status, workflow |-> workflowRows[w].workflowData,
           error |-> "", message |-> ""]
     ELSE IF prompt.status = "FAILED"
     THEN [status |-> prompt.status, workflow |-> NoTrigger,
           error |-> prompt.errorMessage, message |-> ""]
     ELSE [status |-> prompt.status, workflow |-> NoTrigger, error |-> "",
           message |-> "Workflow generation in progress"]

(***************************************************************************)
(* POST /api/workflow/stream: the frames written for one generation.  A    *)
(* partial object is modelled by the set of its top-level fields that are  *)
(* present; a field that has appeared stays.  null is "".                  *)
(***************************************************************************)
\* partial objects of one stream
MaxPartials == 4
StageFields == <<"trigger", "condition", "action", "flowControl">>
\* the values of Date.now() while the frames are written
StreamTimes == {1, 2}

\* `trigger_${Date.now()}`, `condition_...`, `action_...`, `flow_...`
NodeId(field, t) ==
  (IF field = "flowControl" THEN "flow" ELSE field) \o "_" \o ToString(t)

NodeFrame(field, id) == [type |-> "node", field |-> field, id |-> id]
EdgeFrame(n, source, target) ==
  [type |-> "edge", id |-> "edge_" \o ToString(n), source |-> source, target |-> target]
CompleteFrame(totalNodes, totalEdges, workflowId) ==
  [type |-> "complete", totalNodes |-> totalNodes, totalEdges |-> totalEdges,
   workflowId |-> workflowId]

NoStream ==
  [pc |-> "idle", partials |-> 0, completeWorkflow |-> {}, seen |-> FALSE,
   sentNodes |-> {}, triggerId |-> "", conditionId |-> "", actionId |-> "",
   nodeCount |-> 0, edgeCount |-> 0, frames |-> <<>>]

\* variant of the definition below: a node is written again for every
\* partial object
sentNodesHasNever(sentNodes, field) == FALSE

\* sentNodes.has(field)
sentNodesHas(sentNodes, field) == field \in sentNodes

\* the source of the edge written with the node of a field: triggerId for
\* the condition, conditionId || triggerId for the action,
\* actionId || conditionId || triggerId for the flow control
sourceId(st, field) ==
  IF field = "trigger" THEN ""
  ELSE IF field = "condition" THEN st.triggerId
  ELSE IF field = "action"
  THEN IF st.conditionId # "" THEN st.conditionId ELSE st.triggerId
  ELSE IF st.actionId # "" THEN st.actionId
  ELSE IF st.conditionId # "" THEN st.conditionId ELSE st.triggerId

\* one of the four blocks of the loop body, for a partial object with these
\* fields at time t
sendNode(st, field, fields, t) ==
  IF field \in fields /\ ~sentNodesHas(st.sentNodes, field)
  THEN LET id == NodeId(field, t)
           source == sourceId(st, field)
           node == [st EXCEPT
                      !.triggerId = IF field = "trigger" THEN id ELSE @,
                      !.conditionId = IF field = "condition" THEN id ELSE @,
                      !.actionId = IF field = "action" THEN id ELSE @,
                      !.frames = Append(@, NodeFrame(field, id)),
                      !.sentNodes = @ \cup {field},
                      !.nodeCount = @ + 1]
       IN IF source # ""
          THEN [node EXCEPT !.frames = Append(@, EdgeFrame(st.edgeCount, source, id)),
                            !.edgeCount = @ + 1]
          ELSE node
  ELSE st

\* the handler has created its rows and got the stream: the status frame
StreamStatus ==
  /\ stream.pc = "idle"
  /\ stream' = [stream EXCEPT !.pc = "loop",
                              !.frames = <<[type |-> "status"]>>]
  /\ UNCHANGED streamFrame

\* one iteration of for await (const partialObject of ...)
StreamPartial(fields, t) ==
  /\ stream.pc = "loop"
  /\ stream.partials < MaxPartials
  /\ stream.completeWorkflow \subseteq fields
  /\ stream' =
       sendNode(
         sendNode(
           sendNode(
             sendNode([stream EXCEPT !.partials = @ + 1, !.completeWorkflow = fields,
                                     !.seen = TRUE],
                      "trigger", fields, t),
             "condition", fields, t),
           "action", fields, t),
         "flowControl", fields, t)
  /\ UNCHANGED streamFrame

\* the stream is exhausted: the workflow is saved and the complete frame
\* written, with the workflow id when the transaction went through
StreamComplete(dbOk) ==
  /\ stream.pc = "loop"
  /\ stream' = [stream EXCEPT
       !.pc = "ended",
       !.frames = IF stream.seen
                  THEN Append(@, CompleteFrame(stream.nodeCount, stream.edgeCount,
                                               IF dbOk THEN "workflow" ELSE ""))
                  ELSE @]
  /\ UNCHANGED streamFrame

\* a database call before the loop or the stream throws: the outer catch
\* block writes the error frame
StreamError ==
  /\ stream.pc \in {"idle", "loop"}
  /\ stream' = [stream EXCEPT !.pc = "ended",
                              !.frames = Append(@, [type |-> "error"])]
  /\ UNCHANGED streamFrame

NextFrames ==
  \/ StreamStatus
  \/ \E fields \in SUBSET {StageFields[i] : i \in DOMAIN StageFields} :
       \E t \in StreamTimes : StreamPartial(fields, t)
  \/ \E dbOk \in BOOLEAN : StreamComplete(dbOk)
  \/ StreamError

(***************************************************************************)
(* POST /api/chat/stream: one request, from the body to the end of the     *)
(* response.  The handler is suspended at each await; a rejected await     *)
(* lands in the catch block.  undefined and null are "".                   *)
(***************************************************************************)
\* chunks of one text stream
MaxChunks == 3
ChatBodies == {"", "hi"}
ChatWallets == {"", "0xa"}
Chunks == {"a", "b"}
\* prisma.chatMessage.create rejects, prisma.chatConversation.update rejects,
\* or both go through
SaveOutcomes == {"ok", "createThrows", "updateThrows"}

TextFrame(chunk) == [type |-> "text", text |-> chunk]
DoneFrame == [type |-> "done"]
ChatErrorFrame == [type |-> "error", error |-> "Failed to generate response"]

NoChat ==
  [pc |-> "idle", message |-> "", walletAddress |-> "", conversationId |-> "",
   fullResponse |-> "", chunks |-> 0, status |-> 0, frames |-> <<>>]

\* ChatService.saveMessage: the table after the call
saveMessage(rows, conversationId, role, content, outcome) ==
  IF outcome = "createThrows" THEN rows
  ELSE Append(rows, [conversationId |-> conversationId, role |-> role,
                     content |-> content])

\* variant of the definition below: the response kept is the last chunk
fullResponseLast(fullResponse, chunk) == chunk

\* fullResponse += chunk
fullResponsePlus(fullResponse, chunk) == fullResponse \o chunk

\* the catch block: the error frame, and the response is ended
chatCatch(c) ==
  [c EXCEPT !.pc = "ended", !.frames = Append(@, ChatErrorFrame)]

\* the body is read; with a wallet the conversation is found or created
\* (found: the wallet has a conversation updated within 24 hours) and the
\* user's message saved
ChatPost(message, walletAddress, found, dbOk, outcome) ==
  /\ chat.pc = "idle"
  /\ IF message = ""
     THEN /\ chat' = [chat EXCEPT !.pc = "ended", !.status = 400]
          /\ UNCHANGED chatMessages
     ELSE LET body == [chat EXCEPT !.message = message,
                                   !.walletAddress = walletAddress]
          IN IF walletAddress = ""
             THEN /\ chat' = [body EXCEPT !.pc = "streamChat"]
                  /\ UNCHANGED chatMessages
             ELSE IF ~dbOk
             THEN /\ chat' = chatCatch(body)
                  /\ UNCHANGED chatMessages
             ELSE LET conversationId == IF found THEN "recent" ELSE "created"
                      saved == [body EXCEPT !.conversationId = conversationId]
                  IN /\ chatMessages' =
                          saveMessage(chatMessages, conversationId, "user",
                                      message, outcome)
                     /\ chat' = IF outcome = "ok"
                                THEN [saved EXCEPT !.pc = "streamChat"]
                                ELSE chatCatch(saved)
  /\ UNCHANGED chatFrame

\* the headers are set and aiService.streamChat is awaited
ChatStreamChat(ok) ==
  /\ chat.pc = "streamChat"
  /\ chat' = IF ok THEN [chat EXCEPT !.pc = "loop", !.status = 200]
             ELSE chatCatch([chat EXCEPT !.status = 200])
  /\ UNCHANGED <<chatMessages, chatFrame>>

\* one turn of for await (const chunk of stream.textStream): a chunk, or
\* the stream rejects
ChatChunk(chunk, throws) ==
  /\ chat.pc = "loop"
  /\ chat.chunks < MaxChunks
  /\ chat' = IF throws THEN chatCatch(chat)
             ELSE [chat EXCEPT
                     !.fullResponse = fullResponsePlus(@, chunk),
                     !.chunks = @ + 1,
                     !.frames = Append(@, TextFrame(chunk))]
  /\ UNCHANGED <<chatMessages, chatFrame>>

\* the stream is exhausted: with a conversation the response is saved
ChatSaveAssistant(outcome) ==
  /\ chat.pc = "loop"
  /\ IF chat.conversationId = ""
     THEN /\ chat' = [chat EXCEPT !.pc = "done"]
          /\ UNCHANGED chatMessages
     ELSE /\ chatMessages' =
               saveMessage(chatMessages, chat.conversationId, "assistant",
                           chat.fullResponse, outcome)
          /\ chat' = IF outcome = "ok" THEN [chat EXCEPT !.pc = "done"]
                     ELSE chatCatch(chat)
  /\ UNCHANGED chatFrame

\* res.write('data: [DONE]\n\n'); res.end()
ChatDone ==
  /\ chat.pc = "done"
  /\ chat' = [chat EXCEPT !.pc = "ended", !.frames = Append(@, DoneFrame)]
  /\ UNCHANGED <<chatMessages, chatFrame>>

NextChat ==
  \/ \E message \in ChatBodies : \E walletAddress \in ChatWallets :
       \E found, dbOk \in BOOLEAN : \E outcome \in SaveOutcomes :
         ChatPost(message, walletAddress, found, dbOk, outcome)
  \/ \E ok \in BOOLEAN : ChatStreamChat(ok)
  \/ \E chunk \in Chunks : \E throws \in BOOLEAN : ChatChunk(chunk, throws)
  \/ \E outcome \in SaveOutcomes : ChatSaveAssistant(outcome)
  \/ ChatDone

NextPrompt ==
  \/ \E promptText \in PromptTexts : \E dbOk, sendOk \in BOOLEAN :
       PostGenerate(promptText, dbOk, sendOk)
  \/ \E promptText \in PromptTexts : \E valid, dbOk \in BOOLEAN :
       PostStream(promptText, valid, dbOk)
  \/ \E p \in PromptIds : \E throws \in BOOLEAN : JobUpdateProcessing(p, throws)
  \/ \E p \in PromptIds : \E result \in GenerationResults : JobGenerateWorkflow(p, result)
  \/ \E p \in PromptIds : \E throws \in BOOLEAN : JobUpdateFailed(p, throws)
  \/ \E p \in PromptIds : \E throws \in BOOLEAN : JobStoreUpdatePrompt(p, throws)
  \/ \E p \in PromptIds : \E throws \in BOOLEAN : JobStoreCreateWorkflow(p, throws)
  \/ \E p \in PromptIds : \E throws \in BOOLEAN : JobSendEvent(p, throws)
  \/ \E p \in PromptIds : \E trigger \in GeneratedTriggers : \E first \in 1 .. 3 :
       \E throws \in BOOLEAN : StreamGeneration(p, trigger, first, throws)
  \/ \E p \in PromptIds : \E dbOk \in BOOLEAN : StreamSave(p, dbOk)

(***************************************************************************)
(* SchedulerService: the jobs map and the cron tasks.  cron.schedule       *)
(* returns a started task that calls its callback on every tick of its     *)
(* expression until stop() is called on it.                                *)
(***************************************************************************)
MaxTasks == 3
ScheduledIds == {"wf1", "wf2"}
CronExpressions == {"* * * * *", "0 * * * *"}

NoTick == [cron |-> "", calls |-> [id \in ScheduledIds |-> 0]]

\* variant of the definition below: the task is left running
stopNothing(ts, t) == ts

\* ScheduledTask.stop()
stop(ts, t) == [ts EXCEPT ![t].armed = FALSE]

\* scheduleWorkflow(workflowId, cronExpression) on the jobs map js and the
\* tasks ts
scheduleWorkflow(js, ts, workflowId, cronExpression) ==
  [tasks |-> Append(IF js[workflowId] # 0 THEN stop(ts, js[workflowId]) ELSE ts,
                    [workflowId |-> workflowId, cron |-> cronExpression,
                     armed |-> TRUE]),
   jobs |-> [js EXCEPT ![workflowId] = Len(ts) + 1]]

\* a call of scheduleWorkflow(workflowId, cronExpression)
ScheduleWorkflow(workflowId, cronExpression) ==
  /\ Len(tasks) < MaxTasks
  /\ tasks' = scheduleWorkflow(jobs, tasks, workflowId, cronExpression).tasks
  /\ jobs' = scheduleWorkflow(jobs, tasks, workflowId, cronExpression).jobs
  /\ lastTick' = NoTick
  /\ UNCHANGED schedFrame

\* stopWorkflow(workflowId)
StopWorkflow(workflowId) ==
  /\ IF jobs[workflowId] # 0
     THEN /\ tasks' = stop(tasks, jobs[workflowId])
          /\ jobs' = [jobs EXCEPT ![workflowId] = 0]
     ELSE UNCHANGED <<jobs, tasks>>
  /\ lastTick' = NoTick
  /\ UNCHANGED schedFrame

\* A tick of the expression: every running task of the expression calls its
\* callback, which calls aptosService.executeWorkflow(workflowId) and catches
\* what it throws.  lastTick holds the calls of the last tick since the
\* registrations last changed.
CronTick(cronExpression) ==
  /\ lastTick' =
       [cron |-> cronExpression,
        calls |-> [id \in ScheduledIds |->
                     Cardinality({t \in DOMAIN tasks :
                                    /\ tasks[t].armed
                                    /\ tasks[t].cron = cronExpression
                                    /\ tasks[t].workflowId = id})]]
  /\ UNCHANGED <<jobs, tasks>>
  /\ UNCHANGED schedFrame

\* calls of init in one run
MaxInits == 1

\* the rows of the workflows table as init reads them, one per id; "" is a
\* cronExpression that is not set
ScheduleRow(isActive, triggerType, cronExpression) ==
  [isActive |-> isActive, triggerType |-> triggerType, cronExpression |-> cronExpression]
ScheduleRows ==
  [ScheduledIds -> {ScheduleRow(TRUE, "schedule", "* * * * *"),
                    ScheduleRow(TRUE, "schedule", "0 * * * *"),
                    ScheduleRow(TRUE, "schedule", ""),
                    ScheduleRow(FALSE, "schedule", "* * * * *"),
                    ScheduleRow(TRUE, "manual", "* * * * *")}]

\* prisma.workflow.findMany({ where: { isActive: true, triggerType: 'schedule' } })
findScheduleWorkflows(rows) ==
  {id \in ScheduledIds : rows[id].isActive /\ rows[id].triggerType = "schedule"}

\* variant of the definition below: every row is registered
hasCronExpressionAlways(wf) == TRUE

\* if (wf.cronExpression)
hasCronExpression(wf) == wf.cronExpression # ""

\* workflows.forEach(...): the rows of ids, whatever their order, one after
\* the other
RECURSIVE forEachWorkflow(_, _, _, _)
forEachWorkflow(js, ts, rows, ids) ==
  IF ids = {} THEN [tasks |-> ts, jobs |-> js]
  ELSE LET id == CHOOSE i \in ids : TRUE
           next == IF hasCronExpression(rows[id])
                   THEN scheduleWorkflow(js, ts, id, rows[id].cronExpression)
                   ELSE [tasks |-> ts, jobs |-> js]
       IN forEachWorkflow(next.jobs, next.tasks, rows, ids \ {id})

NoSchedInit == [n |-> 0, rows |-> [id \in ScheduledIds |-> ScheduleRow(FALSE, "manual", "")],
                completed |-> FALSE]

\* init() over these rows of the table; dbOk = FALSE: findMany throws and
\* init with it
SchedulerInit(rows, dbOk) ==
  /\ schedInit.n < MaxInits
  /\ schedInit' = [n |-> schedInit.n + 1, rows |-> rows, completed |-> dbOk]
  /\ IF dbOk
     THEN \E after \in {forEachWorkflow(jobs, tasks, rows, findScheduleWorkflows(rows))} :
            /\ Len(after.tasks) <= MaxTasks
            /\ tasks' = after.tasks
            /\ jobs' = after.jobs
     ELSE UNCHANGED <<jobs, tasks>>
  /\ lastTick' = NoTick
  /\ UNCHANGED loadFrame

NextSchedInit ==
  \/ \E rows \in ScheduleRows : \E dbOk \in BOOLEAN : SchedulerInit(rows, dbOk)
  \/ \E id \in ScheduledIds : \E c \in CronExpressions : ScheduleWorkflow(id, c)
  \/ \E id \in ScheduledIds : StopWorkflow(id)

NextSched ==
  \/ \E id \in ScheduledIds : \E c \in CronExpressions : ScheduleWorkflow(id, c)
  \/ \E id \in ScheduledIds : StopWorkflow(id)
  \/ \E c \in CronExpressions : CronTick(c)

(***************************************************************************)
(* IndexerService.checkEventTriggers: one poll cycle.                      *)
(***************************************************************************)
MaxIndexed == 2
IndexedIds == 1 .. MaxIndexed
NoConfig == [address |-> "", creationNumber |-> 0]
TriggerConfigs == {NoConfig, [address |-> "0xa", creationNumber |-> 0],
                   [address |-> "0xa", creationNumber |-> 1]}

\* the rows of the workflows table as the indexer reads them, one per id
IndexedRows ==
  [IndexedIds -> [isActive : BOOLEAN, triggerType : {"event", "schedule"},
                  triggerConfig : TriggerConfigs]]

\* prisma.workflow.findMany({ where: { isActive: true, triggerType: 'event' } })
findEventWorkflows(rows) ==
  LET I(n) == [id |-> n, triggerConfig |-> rows[n].triggerConfig]
      RECURSIVE From(_)
      From(n) == IF n > MaxIndexed THEN <<>>
                 ELSE IF rows[n].isActive /\ rows[n].triggerType = "event"
                 THEN <<I(n)>> \o From(n + 1)
                 ELSE From(n + 1)
  IN From(1)

\* what the chain answers to getAccountEventsByCreationNumber: a list of
\* events, or a failure of the call
FetchFails == <<"error">>
ChainResponses == {<<>>, <<"event">>, <<"event", "event">>, FetchFails}

\* AptosService.getEvents: a failed fetch is an empty list
getEvents(response) == IF response = FetchFails THEN <<>> ELSE response

\* variant of the definition below: the test events.length >= 0
eventsDetectedAlways(found) == Len(found) >= 0

\* if (events.length > 0)
eventsDetected(found) == Len(found) > 0

\* if (!config || !config.address || !config.creationNumber) continue
configIncomplete(triggerConfig) ==
  triggerConfig = NoConfig \/ triggerConfig.address = ""
    \/ triggerConfig.creationNumber = 0

NoPoll == [pc |-> "idle", workflows |-> <<>>, i |-> 0]

\* checkEventTriggers starts: findMany answers, or throws and poll() logs it
PollStart(rows, dbOk) ==
  /\ poll.pc \in {"idle", "done"}
  /\ poll' = IF dbOk
             THEN [pc |-> IF findEventWorkflows(rows) = <<>> THEN "done" ELSE "checking",
                   workflows |-> findEventWorkflows(rows), i |-> 1]
             ELSE [pc |-> "done", workflows |-> <<>>, i |-> 1]
  /\ checked' = <<>>
  /\ UNCHANGED indexerFrame

\* one iteration of the loop, for the chain's response to the fetch and for
\* executeWorkflow throwing or not
PollCheck(response, executeThrows) ==
  /\ poll.pc = "checking"
  /\ LET workflow == poll.workflows[poll.i]
         skipped == configIncomplete(workflow.triggerConfig)
         found == getEvents(response)
         called == ~skipped /\ eventsDetected(found)
     IN checked' = Append(checked,
          [id |-> workflow.id, fetched |-> ~skipped,
           response |-> IF skipped THEN <<>> ELSE response,
           calls |-> IF called THEN 1 ELSE 0,
           caught |-> called /\ executeThrows])
  /\ poll' = [poll EXCEPT !.i = @ + 1,
                          !.pc = IF poll.i = Len(poll.workflows) THEN "done"
                                 ELSE "checking"]
  /\ UNCHANGED indexerFrame

(***************************************************************************)
(* IndexerService.start, stop and poll.  A loop is what one call of poll() *)
(* from start() sets going: a cycle of checkEventTriggers, then a timer of *)
(* pollIntervalMs whose callback is the next call of poll().  A cycle is   *)
(* suspended at findMany and at each workflow it checks; what runs between *)
(* two suspensions runs without interruption.                              *)
(***************************************************************************)
\* effective calls of start() in one run, and cycles of one loop
MaxStarts == 2
MaxCycles == 2

\* pc: "find" (findMany sent), "check" (left workflows still to check),
\* "timer" (setTimeout pending), "ended" (poll() returned without a timer)
Loop(pc, left, cycle) == [pc |-> pc, left |-> left, cycle |-> cycle]

\* variant of the definition below: poll() goes on whatever the flag
pollReturnsNever(running) == FALSE

\* if (!this.isRunning) return
pollReturns(running) == ~running

\* variant of the definition below: the timer is set while workflows are
\* left to check
cycleOverAlways(left) == TRUE

\* await this.checkEventTriggers() has returned or thrown
cycleOver(left) == left = 0

\* start(): nothing while running; else the flag is set and poll() called,
\* which begins a cycle
IndexerStart ==
  /\ IF isRunning
     THEN UNCHANGED <<isRunning, loops>>
     ELSE /\ Len(loops) < MaxStarts
          /\ isRunning' = TRUE
          /\ loops' = Append(loops, IF pollReturns(TRUE) THEN Loop("ended", 0, 0)
                                    ELSE Loop("find", 0, 1))
  /\ UNCHANGED loopFrame

\* stop()
IndexerStop ==
  /\ isRunning' = FALSE
  /\ UNCHANGED loops
  /\ UNCHANGED loopFrame

\* findMany of the cycle of loop l answers with n workflows, or throws
\* (dbOk = FALSE) and poll() catches it
LoopFindMany(l, n, dbOk) ==
  /\ loops[l].pc = "find"
  /\ \E left \in {IF dbOk THEN n ELSE 0} :
       loops' = [loops EXCEPT ![l].left = left,
                              ![l].pc = IF cycleOver(left) THEN "timer" ELSE "check"]
  /\ UNCHANGED isRunning
  /\ UNCHANGED loopFrame

\* one workflow of the cycle of loop l is checked: its events fetched and,
\* if there are any, executeWorkflow called; what is thrown is caught
LoopCheck(l) ==
  /\ loops[l].pc = "check"
  /\ loops[l].left > 0
  /\ loops' = [loops EXCEPT ![l].left = @ - 1,
                            ![l].pc = IF cycleOver(loops[l].left - 1) THEN "timer"
                                      ELSE "check"]
  /\ UNCHANGED isRunning
  /\ UNCHANGED loopFrame

\* the timer of loop l fires: poll()
LoopTimer(l) ==
  /\ loops[l].pc = "timer"
  /\ IF pollReturns(isRunning)
     THEN loops' = [loops EXCEPT ![l].pc = "ended"]
     ELSE /\ loops[l].cycle < MaxCycles
          /\ loops' = [loops EXCEPT ![l].pc = "find", ![l].cycle = @ + 1]
  /\ UNCHANGED isRunning
  /\ UNCHANGED loopFrame

NextLoop ==
  \/ IndexerStart
  \/ IndexerStop
  \/ \E l \in DOMAIN loops : \E n \in 0..MaxIndexed : \E dbOk \in BOOLEAN :
       LoopFindMany(l, n, dbOk)
  \/ \E l \in DOMAIN loops : LoopCheck(l)
  \/ \E l \in DOMAIN loops : LoopTimer(l)

NextIndexer ==
  \/ \E rows \in IndexedRows : \E dbOk \in BOOLEAN : PollStart(rows, dbOk)
  \/ \E response \in ChainResponses : \E executeThrows \in BOOLEAN :
       PollCheck(response, executeThrows)

(***************************************************************************)
(* Canvas persistence: POST /api/workflows/save and                        *)
(* GET /api/workflows/load/:walletAddress.  The requests in flight take    *)
(* their database calls in any order.                                      *)
(***************************************************************************)
MaxSaves == 2
Saves == 1 .. MaxSaves
SaveWallets == {"", "0xa", "0xb"}
\* the documents { nodes, edges } a canvas is saved with
Canvases == {"canvas one", "canvas two"}
NoCanvas == ""

\* `canvas_${walletAddress}`
CanvasPromptId(walletAddress) == "canvas_" \o walletAddress

NoSave == [pc |-> "idle", walletAddress |-> "", canvas |-> NoCanvas, userId |-> 0,
           workflow |-> 0, status |-> 0]

\* ADD CONSTRAINT "workflows_promptId_fkey" FOREIGN KEY ("promptId")
\* REFERENCES "prompts"("id"): whether the table has the row referred to
workflows_promptId_fkey(ps, promptId) == \E p \in DOMAIN ps : ps[p].id = promptId

\* prisma.workflow.findFirst({ where: { promptId, isActive: true } }): the
\* rows it may return (the unique index leaves at most one)
activeCanvasRows(rows, walletAddress) ==
  {i \in DOMAIN rows : /\ rows[i].promptId = CanvasPromptId(walletAddress)
                       /\ rows[i].isActive}

\* the request arrives; without a wallet address it is answered 400
SaveCall(s, walletAddress, canvas) ==
  /\ saves[s].pc = "idle"
  /\ saves' = [saves EXCEPT ![s] =
       IF walletAddress = ""
       THEN [NoSave EXCEPT !.pc = "responded", !.status = 400]
       ELSE [NoSave EXCEPT !.pc = "user.findUnique", !.walletAddress = walletAddress,
                           !.canvas = canvas]]
  /\ UNCHANGED <<users, workflowRows>>
  /\ UNCHANGED saveFrame

\* prisma.user.findUnique answers
SaveFindUser(s) ==
  /\ saves[s].pc = "user.findUnique"
  /\ \E found \in {userOfWallet(users, saves[s].walletAddress)} :
       saves' = [saves EXCEPT ![s].userId = found,
                              ![s].pc = IF found = 0 THEN "user.create"
                                        ELSE "workflow.findFirst"]
  /\ UNCHANGED <<users, workflowRows>>
  /\ UNCHANGED saveFrame

\* prisma.user.create answers, or throws on the unique index and the catch
\* block answers 500
SaveCreateUser(s) ==
  /\ saves[s].pc = "user.create"
  /\ IF users_walletAddress_key(users, saves[s].walletAddress)
     THEN /\ users' = Append(users, [id |-> Len(users) + 1,
                                     walletAddress |-> saves[s].walletAddress])
          /\ saves' = [saves EXCEPT ![s].userId = Len(users) + 1,
                                    ![s].pc = "workflow.findFirst"]
     ELSE /\ saves' = [saves EXCEPT ![s].pc = "responded", ![s].status = 500]
          /\ UNCHANGED users
  /\ UNCHANGED workflowRows
  /\ UNCHANGED saveFrame

\* prisma.workflow.findFirst answers
SaveFindWorkflow(s) ==
  /\ saves[s].pc = "workflow.findFirst"
  /\ IF activeCanvasRows(workflowRows, saves[s].walletAddress) = {}
     THEN saves' = [saves EXCEPT ![s].workflow = 0, ![s].pc = "workflow.write"]
     ELSE \E i \in activeCanvasRows(workflowRows, saves[s].walletAddress) :
            saves' = [saves EXCEPT ![s].workflow = i, ![s].pc = "workflow.write"]
  /\ UNCHANGED <<users, workflowRows>>
  /\ UNCHANGED saveFrame

\* prisma.workflow.update of the row found, or prisma.workflow.create, which
\* throws when the foreign key or the unique index of promptId refuses the
\* row; then the answer
SaveWriteWorkflow(s) ==
  /\ saves[s].pc = "workflow.write"
  /\ \E promptId \in {CanvasPromptId(saves[s].walletAddress)} :
       IF saves[s].workflow # 0
       THEN /\ workflowRows' = [workflowRows EXCEPT
                 ![saves[s].workflow].workflowData = saves[s].canvas]
            /\ saves' = [saves EXCEPT ![s].pc = "responded", ![s].status = 200]
       ELSE IF /\ workflows_promptId_fkey(prompts, promptId)
               /\ workflows_promptId_key(workflowRows, promptId)
       THEN /\ workflowRows' = Append(workflowRows,
                 [id |-> Len(workflowRows) + 1, promptId |-> promptId,
                  workflowData |-> saves[s].canvas, executionStatus |-> "PENDING",
                  isActive |-> TRUE, triggerType |-> "manual"])
            /\ saves' = [saves EXCEPT ![s].pc = "responded", ![s].status = 200,
                                      ![s].workflow = Len(workflowRows) + 1]
       ELSE /\ saves' = [saves EXCEPT ![s].pc = "responded", ![s].status = 500]
            /\ UNCHANGED workflowRows
  /\ UNCHANGED users
  /\ UNCHANGED saveFrame

\* the answer has been sent; the slot takes the next request
SaveDone(s) ==
  /\ saves[s].pc = "responded"
  /\ saves' = [saves EXCEPT ![s] = NoSave]
  /\ UNCHANGED <<users, workflowRows>>
  /\ UNCHANGED saveFrame

\* GET /api/workflows/load/:walletAddress: the canvas returned, NoCanvas for
\* workflow: null
LoadCanvas(walletAddress) ==
  IF activeCanvasRows(workflowRows, walletAddress) = {} THEN NoCanvas
  ELSE workflowRows[CHOOSE i \in activeCanvasRows(workflowRows, walletAddress) : TRUE]
         .workflowData

NextSave ==
  \/ \E s \in Saves : \E w \in SaveWallets : \E c \in Canvases : SaveCall(s, w, c)
  \/ \E s \in Saves : SaveFindUser(s)
  \/ \E s \in Saves : SaveCreateUser(s)
  \/ \E s \in Saves : SaveFindWorkflow(s)
  \/ \E s \in Saves : SaveWriteWorkflow(s)
  \/ \E s \in Saves : SaveDone(s)

(***************************************************************************)
(* GET /health: the database probe, then the balance read of the seller's  *)
(* account through AptosService.getAccountBalance.                         *)
(***************************************************************************)
MaxProbes == 2
Probes == 1 .. MaxProbes

\* what the chain answers to getAccountResources: the call fails (the node
\* cannot be reached), or the account's resources, without a coin store
\* or with one of this value
Unreachable == "unreachable"
NoCoinStore == "no coin store"
ChainAnswers == {Unreachable, NoCoinStore, "0", "5"}

CoinValue(answer) == IF answer = "5" THEN 5 ELSE 0

\* AptosService.getAccountBalance: its catch block logs the failure and
\* returns BigInt(0)
getAccountBalance(answer) ==
  IF answer = Unreachable THEN [threw |-> FALSE, balance |-> 0]
  ELSE IF answer = NoCoinStore THEN [threw |-> FALSE, balance |-> 0]
  ELSE [threw |-> FALSE, balance |-> CoinValue(answer)]

NoProbe == [pc |-> "idle", status |-> "ok", database |-> "unknown",
            aptos |-> "unknown", code |-> 0, dbOk |-> TRUE, chain |-> ""]

\* the request arrives and waits for prisma.$queryRaw`SELECT 1`
HealthCall(h) ==
  /\ probes[h].pc \in {"idle", "responded"}
  /\ probes' = [probes EXCEPT ![h] = [NoProbe EXCEPT !.pc = "queryRaw"]]
  /\ UNCHANGED healthFrame

\* the database probe answers or throws
HealthDatabase(h, dbOk) ==
  /\ probes[h].pc = "queryRaw"
  /\ probes' = [probes EXCEPT
       ![h].dbOk = dbOk,
       ![h].database = IF dbOk THEN "ok" ELSE "error",
       ![h].status = IF dbOk THEN @ ELSE "degraded",
       ![h].pc = "getAccountBalance"]
  /\ UNCHANGED healthFrame

\* the balance read returns or throws, and the response is sent
HealthAptos(h, answer) ==
  /\ probes[h].pc = "getAccountBalance"
  /\ \E threw \in {getAccountBalance(answer).threw} :
     \E status \in {IF threw THEN "degraded" ELSE probes[h].status} :
       probes' = [probes EXCEPT
         ![h].chain = answer,
         ![h].aptos = IF threw THEN "error" ELSE "ok",
         ![h].status = status,
         ![h].code = IF status = "ok" THEN 200 ELSE 503,
         ![h].pc = "responded"]
  /\ UNCHANGED healthFrame

NextHealth ==
  \/ \E h \in Probes : HealthCall(h)
  \/ \E h \in Probes : \E dbOk \in BOOLEAN : HealthDatabase(h, dbOk)
  \/ \E h \in Probes : \E answer \in ChainAnswers : HealthAptos(h, answer)

(***************************************************************************)
(* Request validation: POST /api/generate behind rateLimitByWallet and     *)
(* requirePayment, and POST /api/payment/verify, for bodies that the       *)
(* schemas accept and bodies that they reject.  A string of a body is the  *)
(* sequence of its characters; a field may be missing.                     *)
(***************************************************************************)
\* requests followed in one run
MaxRequests == 2
\* z.string().max(1000, 'Prompt too long')
MaxPromptLength == 1000
\* the {1,64} of the address and hash patterns
MaxHexDigits == 64

HexLower == <<"0", "1", "2", "3", "4", "5", "6", "7", "8", "9", "a", "b", "c", "d", "e", "f">>
HexUpper == <<"0", "1", "2", "3", "4", "5", "6", "7", "8", "9", "A", "B", "C", "D", "E", "F">>
HexValueOf(c) == CHOOSE v \in 0..15 : c \in {HexLower[v + 1], HexUpper[v + 1]}

Missing == [given |-> FALSE, chars |-> <<>>]
Text(chars) == [given |-> TRUE, chars |-> chars]
\* a prompt of n characters
PromptOf(n) == Text([i \in 1..n |-> "a"])

\* the string of a sequence of characters
RECURSIVE Join(_)
Join(chars) == IF chars = <<>> THEN "" ELSE chars[1] \o Join(Tail(chars))

\* the number a string of hex digits writes, by which the model's ledger
\* names its transactions
RECURSIVE HexNumber(_)
HexNumber(digits) ==
  IF digits = <<>> THEN 0
  ELSE 16 * HexNumber(SubSeq(digits, 1, Len(digits) - 1)) + HexValueOf(digits[Len(digits)])

\* /^0x[a-fA-F0-9]{1,64}$/.test(chars)
matchesHex(chars) ==
  /\ Len(chars) >= 3
  /\ Len(chars) - 2 <= MaxHexDigits
  /\ chars[1] = "0"
  /\ chars[2] = "x"
  /\ \A i \in 3..Len(chars) : \E v \in 1..16 : chars[i] \in {HexLower[v], HexUpper[v]}

\* The issues zod reports for one field, in order: a missing field is
\* 'Required'; the checks of a string all run.
stringMinMax(field, minMessage, maxMessage) ==
  IF ~field.given THEN <<"Required">>
  ELSE (IF Len(field.chars) < 1 THEN <<minMessage>> ELSE <<>>)
       \o (IF Len(field.chars) > MaxPromptLength THEN <<maxMessage>> ELSE <<>>)

stringRegex(field, message) ==
  IF ~field.given THEN <<"Required">>
  ELSE IF matchesHex(field.chars) THEN <<>> ELSE <<message>>

\* generateRequestSchema.parse(body): the issues of the ZodError it throws,
\* in the order of the schema's keys; none when it returns
generateRequestSchema(body) ==
  stringMinMax(body.prompt, "Prompt is required", "Prompt too long")
    \o stringRegex(body.sender, "Invalid wallet address")

verifyPaymentRequestSchema(body) ==
  stringRegex(body.txHash, "Invalid transaction hash")
    \o stringRegex(body.sender, "Invalid wallet address")

\* !sender
Falsy(field) == ~field.given \/ field.chars = <<>>

SenderFields ==
  {Missing, Text(<<>>), Text(<<"0", "x", "a">>), Text(<<"0", "x", "b">>),
   Text(<<"a", "b", "c">>), Text(<<"0", "x", "g">>)}
PromptFields == {Missing, PromptOf(0), PromptOf(3), PromptOf(MaxPromptLength + 1)}
HashFields == {Missing, Text(<<"0", "x", "0">>), Text(<<"0", "x">>), Text(<<"z">>)}

GenerateBodies == [prompt : PromptFields, sender : SenderFields]
VerifyBodies == [txHash : HashFields, sender : SenderFields]

NoValidated == [n |-> 0, route |-> "none", body |-> [sender |-> Missing],
                status |-> 0, message |-> ""]
Validated(route, body, status, message) ==
  [n |-> validated.n + 1, route |-> route, body |-> body, status |-> status,
   message |-> message]

\* rateLimitByWallet run to its end at time t: the rows it leaves and the
\* status it sends (0: it calls next())
rateLimitRun(rows, sender, t) ==
  LET found == rateLimitFindFirst(rows, sender, t - HourMs)
  IN IF found # {}
     THEN {IF limitReached(rows[i].requestCount)
           THEN [rows |-> rows, status |-> 429]
           ELSE [rows |-> [rows EXCEPT ![i].requestCount = @ + 1], status |-> 0]
             : i \in found}
     ELSE {[rows |-> Append(rows, [id |-> rateLimitId(rows), walletAddress |-> sender,
                                   requestCount |-> 1, windowStart |-> t]),
            status |-> 0]}

\* POST /api/generate with this body: rateLimitByWallet, requirePayment,
\* then the handler.  dbOk = FALSE: the database calls of the request
\* throw; sendOk = FALSE: inngest.send throws.
PostGenerateBody(body, dbOk, sendOk) ==
  /\ validated.n < MaxRequests
  /\ \E limited \in (IF Falsy(body.sender) \/ ~dbOk
                     THEN {[rows |-> rateLimits, status |-> 0]}
                     ELSE rateLimitRun(rateLimits, Join(body.sender.chars), nowMs)) :
       /\ rateLimits' = limited.rows
       /\ IF limited.status # 0
          THEN /\ validated' = Validated("generate", body, 429, "Rate limit exceeded")
               /\ UNCHANGED <<users, payments, prompts, runs>>
          ELSE IF Falsy(body.sender)
          THEN /\ validated' = Validated("generate", body, 400,
                                         "Sender wallet address is required")
               /\ UNCHANGED <<users, payments, prompts, runs>>
          ELSE IF ~dbOk
          THEN /\ validated' = Validated("generate", body, 500, "Failed to verify payment")
               /\ UNCHANGED <<users, payments, prompts, runs>>
          ELSE IF config.nodeEnv = "development" /\ config.skipPaymentInDev
          THEN \E devPayment \in {storePayment(users, payments, Join(body.sender.chars),
                                               DevHash(payments), 0, clock)} :
                 /\ Len(payments) < MaxRows
                 /\ payments' = devPayment.payments
                 /\ IF generateRequestSchema(body) # <<>>
                    THEN /\ validated' = Validated("generate", body, 500,
                                                   "Failed to process prompt")
                         /\ users' = devPayment.users
                         /\ UNCHANGED <<prompts, runs>>
                    ELSE /\ Len(prompts) < MaxPrompts
                         /\ users' = devPayment.users
                         /\ prompts' = Append(prompts,
                              NewPrompt(prompts, devPayment.userId, devPayment.paymentId,
                                        body.prompt, "PENDING", "generate"))
                         /\ runs' = IF sendOk
                                    THEN [runs EXCEPT ![Len(prompts) + 1] =
                                            [NoRun EXCEPT !.pc = "update-status-processing"]]
                                    ELSE runs
                         /\ validated' =
                              IF sendOk THEN Validated("generate", body, 202,
                                                       "Workflow generation started")
                              ELSE Validated("generate", body, 500, "Failed to process prompt")
          ELSE \E paymentCheck \in checkRecentPayment(users, payments,
                                                      Join(body.sender.chars), clock) :
                 /\ UNCHANGED payments
                 /\ IF ~paymentCheck.hasValidPayment
                    THEN /\ validated' = Validated("generate", body, 402,
                                                   "No valid payment found")
                         /\ UNCHANGED <<users, prompts, runs>>
                    ELSE IF generateRequestSchema(body) # <<>>
                    THEN /\ validated' = Validated("generate", body, 500,
                                                   "Failed to process prompt")
                         /\ UNCHANGED <<users, prompts, runs>>
                    ELSE /\ Len(prompts) < MaxPrompts
                         /\ users' = UsersWith(users, Join(body.sender.chars))
                         /\ prompts' = Append(prompts,
                              NewPrompt(prompts, userOfWallet(users', Join(body.sender.chars)),
                                        paymentCheck.paymentId, body.prompt, "PENDING",
                                        "generate"))
                         /\ runs' = IF sendOk
                                    THEN [runs EXCEPT ![Len(prompts) + 1] =
                                            [NoRun EXCEPT !.pc = "update-status-processing"]]
                                    ELSE runs
                         /\ validated' =
                              IF sendOk THEN Validated("generate", body, 202,
                                                       "Workflow generation started")
                              ELSE Validated("generate", body, 500, "Failed to process prompt")
  /\ UNCHANGED validFrame

\* POST /api/payment/verify with this body
PostVerifyBody(body, dbOk) ==
  /\ validated.n < MaxRequests
  /\ IF verifyPaymentRequestSchema(body) # <<>>
     THEN /\ validated' = Validated("verify", body, 500, "Failed to verify payment")
          /\ UNCHANGED <<users, payments>>
     ELSE \E verification \in {verifyPayment(HexNumber(SubSeq(body.txHash.chars, 3,
                                                              Len(body.txHash.chars))),
                                             Join(body.sender.chars))} :
            IF ~verification.valid
            THEN /\ validated' = Validated("verify", body, 400, verification.error)
                 /\ UNCHANGED <<users, payments>>
            ELSE IF ~dbOk
            THEN /\ validated' = Validated("verify", body, 500, "Failed to verify payment")
                 /\ UNCHANGED <<users, payments>>
            ELSE \E stored \in {storePayment(users, payments, Join(body.sender.chars),
                                   HexNumber(SubSeq(body.txHash.chars, 3,
                                                    Len(body.txHash.chars))),
                                   verification.amount, clock)} :
                   /\ stored.created => Len(payments) < MaxRows
                   /\ users' = stored.users
                   /\ payments' = stored.payments
                   /\ validated' = Validated("verify", body, 200,
                                             "Payment verified successfully")
  /\ UNCHANGED <<rateLimits, prompts, runs>>
  /\ UNCHANGED validFrame

NextValidate ==
  \/ \E body \in GenerateBodies : \E dbOk \in BOOLEAN : \E sendOk \in BOOLEAN :
       PostGenerateBody(body, dbOk, sendOk)
  \/ \E body \in VerifyBodies : \E dbOk \in BOOLEAN : PostVerifyBody(body, dbOk)

(***************************************************************************)
(* Graphs for the walk of walk_and_execute: fan-out, BRANCH nodes, balance *)
(* checks behind transfers, the unimplemented node types, cycles, and      *)
(* argument vectors that do not build a graph.  `to` is the signer's       *)
(* counterparty.                                                           *)
(***************************************************************************)
\* the node types whose handlers abort with E_NOT_IMPLEMENTED
UnimplementedTypes ==
  {NODE_TYPE_SWAP, NODE_TYPE_STAKE, NODE_TYPE_VOTE, NODE_TYPE_LIQUIDITY,
   NODE_TYPE_BORROW_LEND, NODE_TYPE_ORACLE_CHECK}

\* a BRANCH with two successors, a transfer on the second
GraphBranch(to) ==
  Args(<<1, 2, 3>>, <<NODE_TYPE_BRANCH, NODE_TYPE_WAIT, NODE_TYPE_TRANSFER>>,
       <<ZeroAddress, ZeroAddress, to>>, <<0, 0, 2>>, <<2, 0, 0>>, <<2, 3>>)
\* a WAIT that fans out to a BRANCH with a single successor and to an END
GraphBranchOne(to) ==
  Args(<<1, 2, 3, 4>>,
       <<NODE_TYPE_WAIT, NODE_TYPE_BRANCH, NODE_TYPE_TRANSFER, NODE_TYPE_END>>,
       <<ZeroAddress, ZeroAddress, to, ZeroAddress>>, <<0, 0, 2, 0>>,
       <<2, 1, 0, 0>>, <<2, 4, 3>>)
\* a transfer, then a check of the owner's balance against min, then an END
GraphCheck(to, min) ==
  Args(<<1, 2, 3>>, <<NODE_TYPE_TRANSFER, NODE_TYPE_BALANCE_CHECK, NODE_TYPE_END>>,
       <<to, ZeroAddress, ZeroAddress>>, <<2, min, 0>>, <<1, 1, 0>>, <<2, 3>>)
\* a check of the owner's balance against min in front of a transfer
GraphCheckFirst(to, min) ==
  Args(<<1, 2>>, <<NODE_TYPE_BALANCE_CHECK, NODE_TYPE_TRANSFER>>,
       <<ZeroAddress, to>>, <<min, 2>>, <<1, 0>>, <<2>>)
\* a transfer in front of a node of an unimplemented type
GraphUnimplemented(to, type) ==
  Args(<<1, 2>>, <<NODE_TYPE_TRANSFER, type>>, <<to, ZeroAddress>>, <<2, 0>>,
       <<1, 0>>, <<2>>)
\* a fan-out whose second path reaches an unimplemented node after the
\* first has made a transfer
GraphStakeSecond(to) ==
  Args(<<1, 2, 3>>, <<NODE_TYPE_WAIT, NODE_TYPE_TRANSFER, NODE_TYPE_STAKE>>,
       <<ZeroAddress, to, ZeroAddress>>, <<0, 2, 0>>, <<2, 0, 0>>, <<2, 3>>)
\* a node that is its own successor
GraphSelfLoop ==
  Args(<<1>>, <<NODE_TYPE_WAIT>>, <<ZeroAddress>>, <<0>>, <<1>>, <<1>>)
\* a cycle through the first successor of a BRANCH
GraphBranchCycle ==
  Args(<<1, 2>>, <<NODE_TYPE_BRANCH, NODE_TYPE_WAIT>>, <<ZeroAddress, ZeroAddress>>,
       <<0, 0>>, <<2, 1>>, <<2, 2, 1>>)
\* a cycle of a transfer and a balance check: the walk goes round until the
\* check fails
GraphCheckedCycle(to) ==
  Args(<<1, 2>>, <<NODE_TYPE_TRANSFER, NODE_TYPE_BALANCE_CHECK>>, <<to, ZeroAddress>>,
       <<2, 2>>, <<1, 1>>, <<2, 1>>)
\* a transfer to the signer itself in front of a transfer to the counterparty
GraphSelfTransfer(self, to) ==
  Args(<<1, 2>>, <<NODE_TYPE_TRANSFER, NODE_TYPE_TRANSFER>>, <<self, to>>, <<2, 2>>,
       <<1, 0>>, <<2>>)
\* the same node id twice
GraphDuplicateId ==
  Args(<<1, 1>>, <<NODE_TYPE_WAIT, NODE_TYPE_END>>, <<ZeroAddress, ZeroAddress>>,
       <<0, 0>>, <<0, 0>>, <<>>)
\* fewer node types than node ids
GraphShortVectors ==
  Args(<<1, 2>>, <<NODE_TYPE_WAIT>>, <<ZeroAddress, ZeroAddress>>, <<0, 0>>,
       <<0, 0>>, <<>>)

\* the graphs each signer submits in SpecWalk
WalkGraphsOf ==
  [a \in {"A", "B"} |->
     IF a = "A"
     THEN {GraphDiamond("B"), GraphBranch("B"), GraphBranchOne("B"),
           GraphCheck("B", 3), GraphCheck("B", 4), GraphCheckFirst("B", 6),
           GraphStakeSecond("B"), GraphSelfLoop, GraphBranchCycle,
           GraphCheckedCycle("B"), GraphSelfTransfer("A", "B"),
           ChainArgs(MAX_RECURSION_DEPTH, NODE_TYPE_WAIT, 0),
           ChainArgs(MAX_RECURSION_DEPTH + 1, NODE_TYPE_WAIT, 0),
           NoArgs, GraphDuplicateId, GraphShortVectors, GraphMissingNode}
          \cup {GraphUnimplemented("B", type) : type \in UnimplementedTypes}
     ELSE {GraphCheckFirst("A", 1), NoArgs}]

(***************************************************************************)
(* rateLimitByWallet under concurrent requests: a request is suspended at  *)
(* each of its database calls (findFirst, then update or create), and the  *)
(* steps of the requests in flight interleave.  The database calls of      *)
(* these requests do not fail, but for the unique index on                 *)
(* (walletAddress, windowStart).                                           *)
(***************************************************************************)
\* requests followed in one run
MaxRateCalls == 3
RateCallIds == 1..MaxRateCalls

NoRateCall == [pc |-> "idle", sender |-> "", at |-> 0, found |-> 0]

\* rate_limits_walletAddress_windowStart_key admits the row
rate_limits_walletAddress_windowStart_key(rows, sender, windowStart) ==
  \A i \in DOMAIN rows :
    ~(rows[i].walletAddress = sender /\ rows[i].windowStart = windowStart)

\* the request arrives and takes `now`; findFirst is sent.  The slots are
\* taken in order.
RateCallStart(c, sender) ==
  /\ rateCalls[c].pc = "idle"
  /\ \A d \in RateCallIds : d < c => rateCalls[d].pc # "idle"
  /\ rateCalls' = [rateCalls EXCEPT ![c] =
                     [pc |-> "findFirst", sender |-> sender, at |-> nowMs, found |-> 0]]
  /\ UNCHANGED rateLimits
  /\ UNCHANGED raceFrame

\* findFirst answers: a row at its limit is answered 429; another row is to
\* be updated; without a row one is to be created
RateCallFindFirst(c) ==
  /\ rateCalls[c].pc = "findFirst"
  /\ LET found == rateLimitFindFirst(rateLimits, rateCalls[c].sender,
                                     rateCalls[c].at - HourMs)
     IN IF found = {}
        THEN rateCalls' = [rateCalls EXCEPT ![c].pc = "create"]
        ELSE \E i \in found :
               rateCalls' = [rateCalls EXCEPT
                               ![c].found = i,
                               ![c].pc = IF limitReached(rateLimits[i].requestCount)
                                         THEN "refused" ELSE "update"]
  /\ UNCHANGED rateLimits
  /\ UNCHANGED raceFrame

\* update({ requestCount: { increment: 1 } }) answers; next()
RateCallUpdate(c) ==
  /\ rateCalls[c].pc = "update"
  /\ rateLimits' = [rateLimits EXCEPT ![rateCalls[c].found].requestCount = @ + 1]
  /\ rateCalls' = [rateCalls EXCEPT ![c].pc = "admitted"]
  /\ UNCHANGED raceFrame

\* create answers, or throws on the unique index and the catch block calls
\* next() all the same
RateCallCreate(c) ==
  /\ rateCalls[c].pc = "create"
  /\ rateLimits' =
       IF rate_limits_walletAddress_windowStart_key(rateLimits, rateCalls[c].sender,
                                                    rateCalls[c].at)
       THEN Append(rateLimits, [id |-> rateLimitId(rateLimits),
                                walletAddress |-> rateCalls[c].sender,
                                requestCount |-> 1, windowStart |-> rateCalls[c].at])
       ELSE rateLimits
  /\ rateCalls' = [rateCalls EXCEPT ![c].pc = "admitted"]
  /\ UNCHANGED raceFrame

NextRace ==
  \/ \E c \in RateCallIds : \E sender \in RateWallets : RateCallStart(c, sender)
  \/ \E c \in RateCallIds : RateCallFindFirst(c)
  \/ \E c \in RateCallIds : RateCallUpdate(c)
  \/ \E c \in RateCallIds : RateCallCreate(c)
  \/ RateTick

Other(a) == IF a = "A" THEN "B" ELSE "A"

\* the workflow ids a signer names: those its counter has given out and the next
IdsOf(a) == 0..get_next_workflow_id(stores, a)

NoTx == [op |-> "none", caller |-> "A", workflow_id |-> 0, recipient |-> ZeroAddress,
         amount |-> 0, args |-> NoArgs, abort |-> 0, evBase |-> 0]

\* No WorkflowStore is published, A holds 5 coins, the tables of the backend
\* are empty and its configuration is the default one.
Init ==
  /\ stores = [a \in Addresses |-> NoStore]
  /\ balance = [a \in Addresses |-> IF a = "A" THEN 5 ELSE 0]
  /\ events = <<>>
  /\ now = StartTime
  /\ lastTx = NoTx
  /\ commits = 0
  /\ config = DefaultConfig
  /\ users = <<>>
  /\ payments = <<>>
  /\ clock = 0
  /\ lastReq = NoReq
  /\ chat = NoChat
  /\ chatMessages = <<>>
  /\ stream = NoStream
  /\ isRunning = FALSE
  /\ loops = <<>>
  /\ schedInit = NoSchedInit
  /\ rateCalls = [c \in RateCallIds |-> NoRateCall]
  /\ validated = NoValidated
  /\ probes = [h \in Probes |-> NoProbe]
  /\ saves = [s \in Saves |-> NoSave]
  /\ poll = NoPoll
  /\ checked = <<>>
  /\ jobs = [id \in ScheduledIds |-> 0]
  /\ tasks = <<>>
  /\ lastTick = NoTick
  /\ prompts = <<>>
  /\ workflowRows = <<>>
  /\ runs = [p \in PromptIds |-> NoRun]
  /\ lastStatus = 0
  /\ rateLimits = <<>>
  /\ nowMs = 0
  /\ rateSeen = [w \in RateWallets |-> NoWindow]
  /\ lastRate = NoRate
  /\ calls = [c \in Calls |-> NoCall]

\* the same, under any configuration
InitPay ==
  /\ stores = [a \in Addresses |-> NoStore]
  /\ balance = [a \in Addresses |-> IF a = "A" THEN 5 ELSE 0]
  /\ events = <<>>
  /\ now = StartTime
  /\ lastTx = NoTx
  /\ commits = 0
  /\ config \in Configs
  /\ users = <<>>
  /\ payments = <<>>
  /\ clock = 0
  /\ lastReq = NoReq
  /\ chat = NoChat
  /\ chatMessages = <<>>
  /\ stream = NoStream
  /\ isRunning = FALSE
  /\ loops = <<>>
  /\ schedInit = NoSchedInit
  /\ rateCalls = [c \in RateCallIds |-> NoRateCall]
  /\ validated = NoValidated
  /\ probes = [h \in Probes |-> NoProbe]
  /\ saves = [s \in Saves |-> NoSave]
  /\ poll = NoPoll
  /\ checked = <<>>
  /\ jobs = [id \in ScheduledIds |-> 0]
  /\ tasks = <<>>
  /\ lastTick = NoTick
  /\ prompts = <<>>
  /\ workflowRows = <<>>
  /\ runs = [p \in PromptIds |-> NoRun]
  /\ lastStatus = 0
  /\ rateLimits = <<>>
  /\ nowMs = 0
  /\ rateSeen = [w \in RateWallets |-> NoWindow]
  /\ lastRate = NoRate
  /\ calls = [c \in Calls |-> NoCall]

\* the state after POST /verify stored the sender's payment
InitPrompt ==
  /\ stores = [a \in Addresses |-> NoStore]
  /\ balance = [a \in Addresses |-> IF a = "A" THEN 5 ELSE 0]
  /\ events = <<>>
  /\ now = StartTime
  /\ lastTx = NoTx
  /\ commits = 0
  /\ config = DefaultConfig
  /\ users = storePayment(<<>>, <<>>, PromptSender, 1, requiredAmount, 0).users
  /\ payments = storePayment(<<>>, <<>>, PromptSender, 1, requiredAmount, 0).payments
  /\ clock = 0
  /\ lastReq = NoReq
  /\ chat = NoChat
  /\ chatMessages = <<>>
  /\ stream = NoStream
  /\ isRunning = FALSE
  /\ loops = <<>>
  /\ schedInit = NoSchedInit
  /\ rateCalls = [c \in RateCallIds |-> NoRateCall]
  /\ validated = NoValidated
  /\ probes = [h \in Probes |-> NoProbe]
  /\ saves = [s \in Saves |-> NoSave]
  /\ poll = NoPoll
  /\ checked = <<>>
  /\ jobs = [id \in ScheduledIds |-> 0]
  /\ tasks = <<>>
  /\ lastTick = NoTick
  /\ prompts = <<>>
  /\ workflowRows = <<>>
  /\ runs = [p \in PromptIds |-> NoRun]
  /\ lastStatus = 0
  /\ rateLimits = <<>>
  /\ nowMs = 0
  /\ rateSeen = [w \in RateWallets |-> NoWindow]
  /\ lastRate = NoRate
  /\ calls = [c \in Calls |-> NoCall]

NextChain ==
  \/ \E a \in Signers : \E m \in Amounts :
       RegisterSimpleTransferWorkflow(a, Other(a), m)
  \/ \E a \in Signers : \E m \in Amounts :
       RegisterAndExecuteSimpleTransferWorkflow(a, Other(a), m)
  \/ \E a \in Signers : \E g \in GraphsOf[a] : RegisterAndExecuteWorkflow(a, g)
  \/ \E a \in Signers : \E w \in IdsOf(a) : ExecuteWorkflow(a, w)
  \/ \E a \in Signers : \E w \in IdsOf(a) : DeleteWorkflow(a, w)
  \/ Tick

SpecChain == Init /\ [][NextChain]_vars

SpecPay == InitPay /\ [][NextPay]_vars

SpecVerify == Init /\ [][NextVerify]_vars

SpecStore == Init /\ [][NextStore]_vars

SpecRate == Init /\ [][NextRate]_vars
\* the generation routes and the process-prompt job
SpecPrompt == InitPrompt /\ [][NextPrompt]_vars
\* the scheduler
SpecSched == Init /\ [][NextSched]_vars
\* the indexer
SpecIndexer == Init /\ [][NextIndexer]_vars
\* canvas persistence
SpecSave == Init /\ [][NextSave]_vars
\* the health route
SpecHealth == Init /\ [][NextHealth]_vars
\* request validation, the sender's payment being stored
SpecValidate == InitPrompt /\ [][NextValidate]_vars

\* The transactions that execute a workflow, over the graphs of the walk.  A
\* run registers graphs in its first two committed transactions and goes on
\* with executions of the workflows it has stored.
NextWalk ==
  \/ \E a \in Signers : \E m \in Amounts :
       RegisterAndExecuteSimpleTransferWorkflow(a, Other(a), m)
  \/ /\ commits <= 1
     /\ \E a \in Signers : \E g \in WalkGraphsOf[a] : RegisterAndExecuteWorkflow(a, g)
  \/ \E a \in Signers : \E w \in IdsOf(a) : ExecuteWorkflow(a, w)
  \/ Tick

SpecWalk == Init /\ [][NextWalk]_vars
\* the rate limiter under concurrent requests
SpecRace == Init /\ [][NextRace]_vars
\* the rate limiter with cleanupRateLimits run between requests
SpecCleanup == Init /\ [][NextCleanup]_vars
\* SchedulerService with init
SpecSchedInit == Init /\ [][NextSchedInit]_vars
\* IndexerService: start, stop and the poll loops
SpecLoop == Init /\ [][NextLoop]_vars
\* the frames of POST /api/workflow/stream
SpecFrames == Init /\ [][NextFrames]_vars

SpecChat == Init /\ [][NextChat]_vars

(***************************************************************************)
(* Vocabulary of the properties of workflow_graph.                         *)
(***************************************************************************)
\* the entry functions that run execute_workflow
Executing == {"execute_workflow", "register_and_execute_workflow",
              "register_and_execute_simple_transfer_workflow"}
\* the entry functions that register a workflow
Registering == {"register_simple_transfer_workflow", "register_and_execute_workflow",
                "register_and_execute_simple_transfer_workflow"}

\* the step taken is a transaction (and not the passing of time)
TxStep == now' = now

\* the events the last transaction appended to the log
TxEvents == SubSeq(events, lastTx.evBase + 1, Len(events))

\* every workflow stored under any account
StoredWorkflows == {<<a, w>> \in Addresses \X (0..MaxCommits) : has_workflow(stores, a, w)}

(***************************************************************************)
(* C1  An execution that aborts (missing node, recursion limit,            *)
(* unimplemented node type, insufficient funds) leaves the committed state *)
(* as it was before the call: all coin balances, every workflow (its       *)
(* is_locked and last_executed_at), and the event log, the transfers of    *)
(* earlier nodes of the walk included.                                     *)
(***************************************************************************)
C1_AbortRollsBack ==
  [][(TxStep /\ lastTx'.op \in Executing /\ lastTx'.abort # 0)
       => (balance' = balance /\ stores' = stores /\ events' = events)]_vars

\* an execution of a stored workflow that aborted for lack of funds at its
\* second transfer, the first having gone through in the walk
C1_Witness ==
  /\ lastTx.op = "execute_workflow"
  /\ lastTx.abort = EINSUFFICIENT_BALANCE
  /\ has_workflow(stores, lastTx.caller, lastTx.workflow_id)
  /\ LET wf == stores[lastTx.caller].workflows[lastTx.workflow_id]
     IN /\ wf.nodes[wf.start_node_id].node_type = NODE_TYPE_WAIT
        /\ Len(wf.nodes[wf.start_node_id].next_ids) = 2
        /\ balance[lastTx.caller] >= Threshold
        /\ balance[lastTx.caller] < 2 * Threshold

(***************************************************************************)
(* C2  In every committed state, whatever transactions (committed or       *)
(* aborted) led to it, is_locked is false for every stored workflow.       *)
(***************************************************************************)
C2_NeverLocked ==
  \A p \in StoredWorkflows : ~stores[p[1]].workflows[p[2]].is_locked

\* the state after an execution of a stored workflow has aborted
C2_Witness ==
  /\ lastTx.op = "execute_workflow"
  /\ lastTx.abort \notin {0, E_WORKFLOW_NOT_FOUND}
  /\ has_workflow(stores, lastTx.caller, lastTx.workflow_id)

(***************************************************************************)
(* C3  execute_workflow called by an account with the id of a workflow     *)
(* that only another account owns.                                         *)
(***************************************************************************)
\* the caller names an id under which another account, and not the caller,
\* has a workflow
ForeignCall(st, caller, workflow_id) ==
  /\ ~has_workflow(st, caller, workflow_id)
  /\ \E b \in Addresses \ {caller} : has_workflow(st, b, workflow_id)

\* C3 as stated: such a call fails with PermissionDenied (abort code 2) and
\* leaves the workflow's is_locked and last_executed_at unchanged.
C3_Original ==
  [][(TxStep /\ lastTx'.op = "execute_workflow"
        /\ ForeignCall(stores, lastTx'.caller, lastTx'.workflow_id))
       => /\ lastTx'.abort = E_NOT_OWNER
          /\ \A b \in Addresses \ {lastTx'.caller} :
               get_workflow(stores', b, lastTx'.workflow_id)
                 = get_workflow(stores, b, lastTx'.workflow_id)]_vars

\* C3 as amended: such a call fails with NotFound (abort code 1), no
\* execution ever fails with PermissionDenied, and an execution leaves the
\* is_locked and last_executed_at of every other account's workflows unchanged.
C3_Amended ==
  [][(TxStep /\ lastTx'.op = "execute_workflow")
       => /\ lastTx'.abort # E_NOT_OWNER
          /\ ForeignCall(stores, lastTx'.caller, lastTx'.workflow_id)
               => lastTx'.abort = E_WORKFLOW_NOT_FOUND
          /\ \A b \in Addresses \ {lastTx'.caller} :
               get_workflow(stores', b, lastTx'.workflow_id)
                 = get_workflow(stores, b, lastTx'.workflow_id)]_vars

\* an account has executed the id of a workflow only the other account owns
C3_Witness ==
  /\ lastTx.op = "execute_workflow"
  /\ lastTx.abort = E_WORKFLOW_NOT_FOUND
  /\ ForeignCall(stores, lastTx.caller, lastTx.workflow_id)

(***************************************************************************)
(* C4  Every transaction of account A leaves the WorkflowStore of every    *)
(* other account B unchanged: workflows, nodes, lock flags, timestamps,    *)
(* next_workflow_id.                                                       *)
(***************************************************************************)
C4_OtherStoresUnchanged ==
  [][TxStep => \A b \in Addresses \ {lastTx'.caller} : stores'[b] = stores[b]]_vars

\* an account has registered and executed a workflow, and committed, while
\* the other account holds a workflow under the same id
C4_Witness ==
  /\ lastTx.op \in Executing
  /\ lastTx.abort = 0
  /\ has_workflow(stores, Other(lastTx.caller), lastTx.workflow_id)

(***************************************************************************)
(* C5  Per owner: the id given to a newly registered workflow is the       *)
(* number of the owner's earlier committed registrations, from 0;          *)
(* next_workflow_id grows by exactly 1 per committed registration and      *)
(* never decreases; a simple transfer registration stores exactly node 1   *)
(* (TRANSFER to the recipient for the amount, successors [2]) and node 2   *)
(* (END, no successors), with start_node_id = 1.                           *)
(***************************************************************************)
\* the WorkflowRegisteredEvents of an owner in the committed log, in order
RegistrationsOf(log, a) ==
  SelectSeq(log, LAMBDA e : e.kind = "WorkflowRegisteredEvent" /\ e.owner = a)

SimpleTransferNodes(recipient, amount) ==
  (1 :> [id |-> 1, node_type |-> 1, target_address |-> recipient, amount |-> amount,
         data |-> <<>>, next_ids |-> <<2>>])
  @@ (2 :> [id |-> 2, node_type |-> 3, target_address |-> ZeroAddress, amount |-> 0,
            data |-> <<>>, next_ids |-> <<>>])

C5_CounterStep ==
  \A a \in Addresses :
    LET before == get_next_workflow_id(stores, a)
        registered == /\ TxStep /\ lastTx'.caller = a
                      /\ lastTx'.op \in Registering /\ lastTx'.abort = 0
    IN IF registered
       THEN /\ lastTx'.workflow_id = before
            /\ before = Len(RegistrationsOf(events, a))
            /\ get_next_workflow_id(stores', a) = before + 1
            /\ has_workflow(stores', a, before)
            /\ stores'[a].workflows[before].id = before
            /\ lastTx'.op # "register_and_execute_workflow"
                 => /\ stores'[a].workflows[before].nodes
                         = SimpleTransferNodes(lastTx'.recipient, lastTx'.amount)
                    /\ stores'[a].workflows[before].start_node_id = 1
       ELSE get_next_workflow_id(stores', a) = before

AlwaysSucceeds(node, bal) ==
  \/ node.node_type \in {3, 7}
  \/ node.node_type = 2 /\ bal >= node.amount

\* The number of nodes of the chain that starts at node id, n nodes having
\* come before: each node dispatches successfully and has one successor, the
\* last has none.  -1 when the graph is no such chain; counting stops past 21.
RECURSIVE ChainLength(_, _, _, _)
ChainLength(nodes, id, bal, n) ==
  IF n > 21 THEN n
  ELSE IF id \notin DOMAIN nodes THEN -1
  ELSE IF ~AlwaysSucceeds(nodes[id], bal) THEN -1
  ELSE IF Len(nodes[id].next_ids) = 0 THEN n + 1
  ELSE IF Len(nodes[id].next_ids) = 1 THEN ChainLength(nodes, nodes[id].next_ids[1], bal, n + 1)
  ELSE -1

\* the nodes and the start node a transaction executes, from the state
\* before it: <<nodes, start>>, or <<>> when it executes none
Executed(tx) ==
  IF tx.op = "execute_workflow"
  THEN IF has_workflow(stores, tx.caller, tx.workflow_id)
       THEN <<stores[tx.caller].workflows[tx.workflow_id].nodes,
              stores[tx.caller].workflows[tx.workflow_id].start_node_id>>
       ELSE <<>>
  ELSE IF tx.op = "register_and_execute_workflow"
  THEN LET built == build_nodes(tx.args, 0, 0, EmptyMap)
       IN IF built.abort = 0 /\ Len(tx.args.node_ids) > 0
          THEN <<built.nodes, tx.args.node_ids[1]>> ELSE <<>>
  ELSE <<>>

\* the transaction executes a graph of 20 nodes or more (no smaller graph
\* holds a chain of 20)
ExecutesLargeGraph(tx) ==
  IF tx.op = "execute_workflow"
  THEN /\ has_workflow(stores, tx.caller, tx.workflow_id)
       /\ Cardinality(DOMAIN stores[tx.caller].workflows[tx.workflow_id].nodes) >= 20
  ELSE tx.op = "register_and_execute_workflow" /\ Len(tx.args.node_ids) >= 20

C6_Chain(x, n, base) ==
  /\ n >= 21 => /\ lastTx'.abort = 7
                /\ stores' = stores
                /\ events' = events
  /\ n = 20 => /\ lastTx'.abort = 0
               /\ Len(events') = Len(base) + 21
               /\ SubSeq(events', 1, Len(base)) = base
               /\ events'[Len(events')] =
                    [kind |-> "WorkflowCompletedEvent",
                     workflow_id |-> lastTx'.workflow_id,
                     total_steps |-> 20, success |-> TRUE]
               /\ stores'[lastTx'.caller].workflows[lastTx'.workflow_id]
                    .last_executed_at = now

C6_ChainStep ==
  (TxStep /\ ExecutesLargeGraph(lastTx')) =>
    \A x \in {Executed(lastTx')} :
      x # <<>> =>
        \A n \in {ChainLength(x[1], x[2], balance[lastTx'.caller], 0)} :
          C6_Chain(x, n,
                   IF lastTx'.op = "execute_workflow" THEN events
                   ELSE Append(events, [kind |-> "WorkflowRegisteredEvent",
                                        workflow_id |-> lastTx'.workflow_id,
                                        owner |-> lastTx'.caller,
                                        node_count |-> Len(lastTx'.args.node_ids)]))

C6_RecursionLimit == [][C6_ChainStep]_vars

\* the execution of a stored workflow has aborted with code 7
C6_Witness ==
  /\ lastTx.op = "execute_workflow"
  /\ lastTx.abort = 7
  /\ has_workflow(stores, lastTx.caller, lastTx.workflow_id)

(***************************************************************************)
(* C7  A node whose node_type byte is outside 1..11 dispatches to          *)
(* (success = false, error_code = 8) without aborting: a WorkflowStepEvent *)
(* with that outcome is emitted, none of the node's successors is visited, *)
(* and the execution commits.                                              *)
(***************************************************************************)
\* every recorded step of an unknown node type carries (false, 8)
C7_UnknownSteps ==
  \A i \in DOMAIN events :
    (events[i].kind = "WorkflowStepEvent" /\ events[i].node_type \notin 1..11)
      => (events[i].success = FALSE /\ events[i].error_code = 8)

\* an execution that starts at a node of unknown type commits with that one
\* step and the completion event, and nothing of the node's successors
C7_UnknownStart(x, base) ==
  (x # <<>> /\ x[2] \in DOMAIN x[1] /\ x[1][x[2]].node_type \notin 1..11) =>
     /\ lastTx'.abort = 0
     /\ balance' = balance
     /\ events' = base \o
          << [kind |-> "WorkflowStepEvent", workflow_id |-> lastTx'.workflow_id,
              node_id |-> x[2], node_type |-> x[1][x[2]].node_type,
              success |-> FALSE, error_code |-> 8],
             [kind |-> "WorkflowCompletedEvent", workflow_id |-> lastTx'.workflow_id,
              total_steps |-> 1, success |-> TRUE] >>

C7_UnknownStep ==
  (TxStep /\ lastTx'.op \in {"execute_workflow", "register_and_execute_workflow"}) =>
    \A x \in {Executed(lastTx')} :
      C7_UnknownStart(x,
        IF lastTx'.op = "execute_workflow" THEN events
        ELSE Append(events, [kind |-> "WorkflowRegisteredEvent",
                             workflow_id |-> lastTx'.workflow_id,
                             owner |-> lastTx'.caller,
                             node_count |-> Len(lastTx'.args.node_ids)]))

C7_UnknownNodeType == []C7_UnknownSteps /\ [][C7_UnknownStep]_vars

\* a stored workflow whose start node has an unknown type and a transfer as
\* its successor has been executed, and the execution has committed
C7_Witness ==
  /\ lastTx.op = "execute_workflow"
  /\ lastTx.abort = 0
  /\ LET wf == stores[lastTx.caller].workflows[lastTx.workflow_id]
     IN /\ wf.nodes[wf.start_node_id].node_type = UnknownType
        /\ wf.nodes[wf.nodes[wf.start_node_id].next_ids[1]].node_type = 1
  /\ Len(TxEvents) = 2

(***************************************************************************)
(* C8  delete_workflow on an id absent from the caller's store (or without *)
(* a store) aborts with NotFound and changes nothing; on an existing id it *)
(* removes the entry: has_workflow is false and get_workflow returns       *)
(* (false, 0, 0, 0, false) for that id from then on, ids being never       *)
(* given out again.                                                        *)
(***************************************************************************)
\* the id has been given out to the owner and is no longer stored
Deleted(st, a, w) == w < get_next_workflow_id(st, a) /\ ~has_workflow(st, a, w)

C8_DeleteStep ==
  /\ (TxStep /\ lastTx'.op = "delete_workflow") =>
       IF has_workflow(stores, lastTx'.caller, lastTx'.workflow_id)
       THEN /\ lastTx'.abort = 0
            /\ ~has_workflow(stores', lastTx'.caller, lastTx'.workflow_id)
            /\ Deleted(stores', lastTx'.caller, lastTx'.workflow_id)
            /\ \A w \in (DOMAIN stores[lastTx'.caller].workflows) \ {lastTx'.workflow_id} :
                 /\ has_workflow(stores', lastTx'.caller, w)
                 /\ stores'[lastTx'.caller].workflows[w] = stores[lastTx'.caller].workflows[w]
       ELSE /\ lastTx'.abort = 1
            /\ stores' = stores /\ balance' = balance /\ events' = events
  /\ \A a \in Addresses : \A w \in 0..MaxCommits :
       Deleted(stores, a, w) =>
         /\ ~has_workflow(stores', a, w)
         /\ get_workflow(stores', a, w) = <<FALSE, 0, 0, 0, FALSE>>

SkippingOff == ~(config.nodeEnv = "development" /\ config.skipPaymentInDev)

\* the rows of the wallet that are VERIFIED, were verified within the
\* validity window and have not expired at the time of the clock
ValidPaymentsOf(wallet) ==
  {i \in DOMAIN payments :
     /\ users[payments[i].userId].walletAddress = wallet
     /\ payments[i].status = "VERIFIED"
     /\ payments[i].verifiedAt >= clock - ExpiryHours
     /\ payments[i].expiresAt >= clock}

(***************************************************************************)
(* C9  With payment skipping off, requirePayment calls next() only when    *)
(* the sender's wallet has a VERIFIED payment verified within the validity *)
(* window and not yet expired, and attaches that payment's id; a request   *)
(* of a sender without such a payment never reaches next(), and when its   *)
(* lookup completes it is answered 402 with the seller address, the        *)
(* required amount and the network.                                        *)
(***************************************************************************)
C9_RequirePaymentGate ==
  (lastReq.handler = "requirePayment" /\ SkippingOff) =>
     /\ lastReq.next =>
          \E i \in ValidPaymentsOf(lastReq.sender) :
             lastReq.payment.paymentId = payments[i].id
     /\ ValidPaymentsOf(lastReq.sender) = {} =>
          /\ ~lastReq.next
          /\ (lastReq.sender # "" /\ lastReq.status # 500) =>
               /\ lastReq.status = 402
               /\ lastReq.details = [sellerAddress |-> sellerAddress,
                                     requiredAmount |-> ToString(RequiredAmount),
                                     network |-> aptosNetwork]
     /\ lastReq.status # 0 => ~lastReq.next

\* the gate lets a request through on the wallet's second payment while the
\* wallet's first payment has expired
C9_Witness ==
  /\ lastReq.handler = "requirePayment"
  /\ SkippingOff
  /\ lastReq.next
  /\ \E i \in DOMAIN payments :
        /\ users[payments[i].userId].walletAddress = lastReq.sender
        /\ payments[i].expiresAt < clock

(***************************************************************************)
(* C10  verifyPayment returns valid exactly when the transaction exists,   *)
(* executed successfully, is a user transaction calling 0x1::coin::transfer*)
(* with the AptosCoin type argument, pays the seller address, pays at      *)
(* least the required amount and was sent by senderAddress; when several   *)
(* of these fail the error is that of the first in this order; a           *)
(* transaction sent by one wallet is never accepted, nor stored, for       *)
(* another wallet.                                                         *)
(***************************************************************************)
C10_Errors ==
  << "Transaction not found", "Transaction failed on blockchain",
     "Not a valid APT transfer transaction", "Payment sent to wrong address",
     "Insufficient payment", "Sender address mismatch" >>

\* the six conditions for the hash h (whose lookup returns) and senderAddress
C10_Conditions(h, senderAddress) ==
  IF h = HashNull THEN [k \in 1..6 |-> FALSE]
  ELSE LET tx == IF h = HashPending THEN PendingTransaction ELSE TransactionAt(h)
       IN << TRUE,
             "vm_status" \in DOMAIN tx /\ tx.vm_status = "Executed successfully",
             /\ tx.type = "user_transaction"
             /\ tx.payload.type = "entry_function_payload"
             /\ tx.payload.function = "0x1::coin::transfer"
             /\ tx.payload.type_arguments = <<"0x1::aptos_coin::AptosCoin">>,
             tx.payload.arguments[1] = sellerAddress,
             \E n \in RequiredAmount..(RequiredAmount + 1) :
                tx.payload.arguments[2] = ToString(n),
             tx.sender = senderAddress >>

C10_VerifyPayment ==
  /\ (lastReq.handler = "verify" /\ lastReq.txHash \in Hashes) =>
       \A v \in {lastReq.verification} :
         /\ lastReq.txHash = HashThrows => ~v.valid
         /\ lastReq.txHash # HashThrows =>
              \A c \in {C10_Conditions(lastReq.txHash, lastReq.sender)} :
                /\ v.valid <=> \A k \in 1..6 : c[k]
                /\ \A k \in 1..6 :
                     (~c[k] /\ \A j \in 1..(k - 1) : c[j]) => v.error = C10_Errors[k]
                /\ v.valid =>
                     /\ AccountOf(TransactionAt(lastReq.txHash).sender)
                          = AccountOf(lastReq.sender)
                     /\ ToString(v.amount)
                          = TransactionAt(lastReq.txHash).payload.arguments[2]
         /\ ~v.valid => lastReq.status = 400 /\ lastReq.message = v.error
         /\ lastReq.status = 200 =>
              /\ v.valid
              /\ \E i \in DOMAIN payments :
                    /\ payments[i].id = lastReq.payment.paymentId
                    /\ payments[i].txHash = lastReq.txHash
  /\ \A i \in DOMAIN payments :
       payments[i].txHash \in Hashes =>
         TransactionAt(payments[i].txHash).sender
           = users[payments[i].userId].walletAddress

\* a coin transfer of one account that pays the seller enough is presented
\* by another wallet and refused
C10_Witness ==
  /\ lastReq.handler = "verify"
  /\ lastReq.txHash \in 0..(NumTx - 1)
  /\ lastReq.verification.error = "Sender address mismatch"
  /\ AccountOf(TransactionAt(lastReq.txHash).sender) # AccountOf(lastReq.sender)
  /\ lastReq.status = 400

(***************************************************************************)
(* C11  Under every interleaving of storePayment calls, suspended at each  *)
(* database call, at most one payments row exists per txHash, and a call   *)
(* whose txHash is already stored when it begins returns the id of the     *)
(* existing payment without creating or changing any row.                  *)
(***************************************************************************)
C11_OneRowPerHash ==
  \A i, j \in DOMAIN payments : payments[i].txHash = payments[j].txHash => i = j

\* a step of a call that began with its txHash already stored
C11_StoredCallStep ==
  \A c \in Calls :
    (calls[c].storedAtStart # 0 /\ calls'[c] # calls[c]) =>
       /\ users' = users
       /\ payments' = payments
       /\ calls'[c].pc # "threw"
       /\ calls'[c].pc = "returned" => calls'[c].paymentId = calls[c].storedAtStart

C11_StorePaymentIdempotent == []C11_OneRowPerHash /\ [][C11_StoredCallStep]_vars

\* two calls raced on one txHash and the loser threw on the unique index,
\* and a call that began afterwards returned the stored payment
C11_Witness ==
  /\ \E c \in Calls : calls[c].pc = "threw" /\ calls[c].userId # 0
  /\ \E c \in Calls : calls[c].pc = "returned" /\ calls[c].storedAtStart # 0


(***************************************************************************)
(* C12  rateLimitByWallet, for a wallet issuing its requests one after     *)
(* another with threshold N = RateLimitRequestsPerHour: the k-th request   *)
(* inside one window is admitted when k <= N and counted in the window's   *)
(* row; the (N+1)-th and later ones are answered 429, leave the table as   *)
(* it was, and carry as retryAfter the whole seconds left until            *)
(* windowStart + 1 hour, between 0 and the seconds of an hour; the first   *)
(* request after the window has expired is admitted and opens a new row    *)
(* with requestCount 1 whose windowStart is the time of the request.       *)
(***************************************************************************)
C12_RequestStep ==
  \A w \in RateWallets :
    (rateSeen'[w] # rateSeen[w] /\ ~rateSeen'[w].failed) =>
      \A k \in {rateSeen'[w].requests} :
      \A ws \in {rateSeen'[w].windowStart} :
      \A rem \in {rateSeen'[w].windowStart + HourMs - nowMs} :
        /\ lastRate'.sender = w
        /\ k <= RateLimitRequestsPerHour =>
             /\ lastRate'.next
             /\ lastRate'.status = 0
             /\ \E i \in DOMAIN rateLimits' :
                  /\ rateLimits'[i].walletAddress = w
                  /\ rateLimits'[i].windowStart = ws
                  /\ rateLimits'[i].requestCount = k
        /\ k > RateLimitRequestsPerHour =>
             /\ ~lastRate'.next
             /\ lastRate'.status = 429
             /\ rateLimits' = rateLimits
             /\ lastRate'.retryAfter * MsPerSecond >= rem
             /\ (lastRate'.retryAfter - 1) * MsPerSecond < rem
             /\ lastRate'.retryAfter >= 0
             /\ lastRate'.retryAfter <= SecondsPerHour
        /\ k = 1 =>
             /\ ws = nowMs
             /\ Len(rateLimits') = Len(rateLimits) + 1
             /\ rateLimits'[Len(rateLimits')] =
                  [id |-> Len(rateLimits'), walletAddress |-> w,
                   requestCount |-> 1, windowStart |-> nowMs]

C12_RateLimit == [][C12_RequestStep]_vars

\* a wallet whose first window expired opened a second one, filled it, and
\* its next request is answered 429 with a whole hour to wait
C12_Witness ==
  /\ lastRate.status = 429
  /\ lastRate.retryAfter = SecondsPerHour
  /\ \E i, j \in DOMAIN rateLimits :
       /\ i < j
       /\ rateLimits[i].walletAddress = lastRate.sender
       /\ rateLimits[j].walletAddress = lastRate.sender
       /\ rateLimits[j].requestCount = RateLimitRequestsPerHour
       /\ rateLimits[j].windowStart = nowMs


(***************************************************************************)
(* C13  Every Prompt row, whichever route created it, moves through the    *)
(* statuses PENDING, PROCESSING and then COMPLETED or FAILED in that       *)
(* order, each transition at most once, and never leaves COMPLETED or      *)
(* FAILED, also when a retry re-runs steps of the job.  As stated          *)
(* (C13_Original) a row is created PENDING; POST /api/workflow/stream      *)
(* creates its row PROCESSING.  As amended (C13_Amended) a row of          *)
(* POST /api/generate is created PENDING and a row of the streaming route  *)
(* PROCESSING, and a status only ever changes along PENDING -> PROCESSING, *)
(* PROCESSING -> COMPLETED, PROCESSING -> FAILED.                          *)
(***************************************************************************)
StatusMoves ==
  {<<"PENDING", "PROCESSING">>, <<"PROCESSING", "COMPLETED">>,
   <<"PROCESSING", "FAILED">>}

\* the status of every existing row stays or makes one of the moves
C13_InOrder ==
  \A p \in DOMAIN prompts :
    /\ p \in DOMAIN prompts'
    /\ \/ prompts'[p].status = prompts[p].status
       \/ <<prompts[p].status, prompts'[p].status>> \in StatusMoves

C13_OriginalStep ==
  /\ C13_InOrder
  /\ \A p \in DOMAIN prompts' \ DOMAIN prompts : prompts'[p].status = "PENDING"

C13_Original == [][C13_OriginalStep]_vars

C13_AmendedStep ==
  /\ C13_InOrder
  /\ \A p \in DOMAIN prompts' \ DOMAIN prompts :
       prompts'[p].status =
         IF prompts'[p].route = "generate" THEN "PENDING" ELSE "PROCESSING"

C13_Amended == [][C13_AmendedStep]_vars

\* a retry re-ran the store step of a prompt that it had marked COMPLETED
C13_Witness ==
  \E p \in DOMAIN prompts :
    /\ prompts[p].status = "COMPLETED"
    /\ runs[p].pc = "store-workflow"
    /\ runs[p].attempts > 0


(***************************************************************************)
(* C14  The store step of the job marks the prompt COMPLETED and creates   *)
(* its DRAFT Workflow row as one atomic unit: in no reachable state, also  *)
(* after a failure between or in the two writes, is a prompt of the job    *)
(* COMPLETED without a Workflow row holding its promptId.                  *)
(***************************************************************************)
C14_CompletedWithWorkflow ==
  \A p \in DOMAIN prompts :
    (prompts[p].route = "generate" /\ prompts[p].status = "COMPLETED") =>
      /\ workflowOfPrompt(workflowRows, prompts[p].id) # 0
      /\ workflowRows[workflowOfPrompt(workflowRows, prompts[p].id)].executionStatus
           = "DRAFT"


(***************************************************************************)
(* C15  When the process-prompt job has used up its 3 retries because a    *)
(* step keeps throwing, the prompt ends in status FAILED with the last     *)
(* error message recorded.  Stated on the final state of such a run: a run *)
(* that has failed for good has a prompt that is FAILED and carries an     *)
(* error message.                                                          *)
(***************************************************************************)
C15_ExhaustedIsFailed ==
  \A p \in DOMAIN prompts :
    runs[p].pc = "failed" =>
      /\ prompts[p].status = "FAILED"
      /\ prompts[p].errorMessage # ""


(***************************************************************************)
(* C16  After any sequence of scheduleWorkflow and stopWorkflow calls each *)
(* workflow id has at most one running cron task, and it has one exactly   *)
(* when the id is in the jobs map, the task being the one the map holds;   *)
(* a tick of an expression calls executeWorkflow(id) once when the id is   *)
(* in the map with that expression, however often it was scheduled, and    *)
(* never when the id is not in the map.                                    *)
(***************************************************************************)
ArmedTasks(id) == {t \in DOMAIN tasks : tasks[t].armed /\ tasks[t].workflowId = id}

C16_OneArmedTask ==
  \A id \in ScheduledIds :
    /\ Cardinality(ArmedTasks(id)) <= 1
    /\ ArmedTasks(id) = IF jobs[id] # 0 THEN {jobs[id]} ELSE {}
    /\ lastTick # NoTick =>
         lastTick.calls[id] =
           IF jobs[id] # 0 /\ tasks[jobs[id]].cron = lastTick.cron THEN 1 ELSE 0

\* an id scheduled twice, then a tick; another id scheduled and stopped
C16_Witness ==
  /\ \E id \in ScheduledIds :
       /\ Cardinality({t \in DOMAIN tasks : tasks[t].workflowId = id}) = 2
       /\ lastTick.calls[id] = 1
  /\ \E id \in ScheduledIds :
       /\ jobs[id] = 0
       /\ \E t \in DOMAIN tasks : tasks[t].workflowId = id
       /\ lastTick # NoTick


(***************************************************************************)
(* C17  In one poll cycle of the indexer executeWorkflow is called for an  *)
(* active event-trigger workflow exactly once when the list of events      *)
(* fetched for it is not empty and never when it is empty, a failed fetch  *)
(* counting as empty; an exception while one workflow is checked or        *)
(* executed does not keep the cycle from checking the workflows after it:  *)
(* the cycle goes through all of them, in order.                           *)
(***************************************************************************)
C17_PollCycle ==
  /\ Len(checked) = IF poll.pc = "idle" THEN 0 ELSE poll.i - 1
  /\ poll.pc = "done" => Len(checked) = Len(poll.workflows)
  /\ \A k \in DOMAIN checked :
       /\ checked[k].id = poll.workflows[k].id
       /\ checked[k].calls =
            IF /\ checked[k].fetched
               /\ checked[k].response # FetchFails
               /\ checked[k].response # <<>>
            THEN 1 ELSE 0
       /\ checked[k].caught => checked[k].calls = 1

\* a cycle over two workflows: executeWorkflow threw for the first, the
\* fetch failed for the second
C17_Witness ==
  /\ poll.pc = "done"
  /\ Len(checked) = 2
  /\ checked[1].caught
  /\ checked[2].fetched
  /\ checked[2].response = FetchFails
  /\ checked[2].calls = 0


(***************************************************************************)
(* C18  For a prompt that matches none of the schedule keywords, a         *)
(* generation that returns a schedule_trigger ends as manual_trigger with  *)
(* the cron and schedule fields removed, in the workflow shown to the      *)
(* client and in the workflow persisted, on the streaming route and on the *)
(* path of the queued job: whatever is shown or stored for such a prompt   *)
(* is a manual_trigger without cron and schedule.                          *)
(***************************************************************************)
ManualOnly(trigger) ==
  trigger \in {NoTrigger, Trigger("manual_trigger", FALSE, FALSE)}

C18_ManualWithoutKeywords ==
  \A p \in DOMAIN prompts :
    ~hasScheduleKeywords(prompts[p].promptText) =>
      /\ ManualOnly(runs[p].shown)
      /\ ManualOnly(GetPrompt(p).workflow)
      /\ ManualOnly(prompts[p].workflowJson)
      /\ \A i \in DOMAIN workflowRows :
           workflowRows[i].promptId = prompts[p].id =>
             ManualOnly(workflowRows[i].workflowData)


(***************************************************************************)
(* C19  POST /api/workflows/save for a wallet W, overlapping requests      *)
(* included: there is at most one active Workflow row whose promptId is    *)
(* canvas_W, every save with a wallet address and a canvas is answered     *)
(* with success, and GET /api/workflows/load/W returns the canvas of the   *)
(* latest save.                                                            *)
(***************************************************************************)
C19_OneRowAndSuccess ==
  /\ \A w \in SaveWallets : Cardinality(activeCanvasRows(workflowRows, w)) <= 1
  /\ \A s \in Saves :
       (saves[s].pc = "responded" /\ saves[s].walletAddress # "") =>
         saves[s].status = 200

\* the save that has just written is what a load returns
C19_LoadStep ==
  \A s \in Saves :
    (saves[s].pc = "workflow.write" /\ saves'[s].pc = "responded"
       /\ saves'[s].status = 200) =>
      LoadCanvas(saves[s].walletAddress)' = saves[s].canvas

C19_SaveLoad == []C19_OneRowAndSuccess /\ [][C19_LoadStep]_vars


(***************************************************************************)
(* C20  GET /health answers status ok with HTTP 200 only if the database   *)
(* probe and the chain balance read both succeeded; when the chain client  *)
(* cannot be reached the aptos service is reported as error and the        *)
(* response is degraded with HTTP 503.                                     *)
(***************************************************************************)
C20_HealthReflectsChain ==
  \A h \in Probes :
    probes[h].pc = "responded" =>
      /\ (probes[h].status = "ok" /\ probes[h].code = 200) =>
           (probes[h].dbOk /\ probes[h].chain # Unreachable)
      /\ probes[h].chain = Unreachable =>
           /\ probes[h].aptos = "error"
           /\ probes[h].status = "degraded"
           /\ probes[h].code = 503

(***************************************************************************)
(* Vocabulary of the properties of request validation.                     *)
(***************************************************************************)
\* the issues the route's schema reports for the body of a request
IssuesOf(v) ==
  IF v.route = "generate" THEN generateRequestSchema(v.body)
  ELSE IF v.route = "verify" THEN verifyPaymentRequestSchema(v.body)
  ELSE <<>>

\* the events prompt/submitted sent so far: the runs that have started
SentEvents(rs) == {p \in DOMAIN rs : rs[p].pc # "none"}

(***************************************************************************)
(* C21  A request to POST /api/generate or POST /api/payment/verify whose  *)
(* prompt, wallet address or transaction hash fails schema validation is   *)
(* answered with HTTP 400 carrying the first schema-violation message, and *)
(* creates no Prompt or Payment row and sends no job event.                *)
(***************************************************************************)
C21_InvalidStep ==
  (validated'.n = validated.n + 1 /\ IssuesOf(validated') # <<>>) =>
     /\ validated'.status = 400
     /\ validated'.message = IssuesOf(validated')[1]
     /\ prompts' = prompts
     /\ payments' = payments
     /\ SentEvents(runs') = SentEvents(runs)

C21_InvalidIs400 == [][C21_InvalidStep]_vars

(***************************************************************************)
(* Vocabulary of the properties of the walk.  The walk of an execution is  *)
(* read back from the WorkflowStepEvents the transaction recorded.         *)
(***************************************************************************)
\* the WorkflowStepEvents transaction tx appended to the log, in order
StepsOf(tx, log) ==
  SelectSeq(SubSeq(log, tx.evBase + 1, Len(log)), LAMBDA e : e.kind = "WorkflowStepEvent")

\* transaction tx ran execute_workflow to its end
Committed(tx) == tx.op \in Executing /\ tx.abort = 0

\* the workflow a committed execution ran, in the store it left
WorkflowOf(tx, st) == st[tx.caller].workflows[tx.workflow_id]

\* The successors the walk visits below a node whose step was recorded with
\* this outcome: none below a failed step; the first successor of a BRANCH
\* that has two or more, and none of a BRANCH that has fewer; every
\* successor of any other node, in the order of next_ids.
Visited(node, success) ==
  IF ~success THEN <<>>
  ELSE IF node.node_type = 8
  THEN IF Len(node.next_ids) >= 2 THEN <<node.next_ids[1]>> ELSE <<>>
  ELSE node.next_ids

\* Reads the steps from index i on as the depth-first walk of the node id
\* at this level (the start node is at level 1): ok when steps[i] is the
\* step of that node and the walks of its visited successors follow in
\* order; next is the index after the walk, levels the deepest level in it.
\* WalkLogEach reads the walks of the ids from the k-th on.
RECURSIVE WalkLog(_, _, _, _, _)
RECURSIVE WalkLogEach(_, _, _, _, _, _, _)
WalkLog(nodes, steps, i, id, level) ==
  IF \/ i > Len(steps)
     \/ id \notin DOMAIN nodes
  THEN [ok |-> FALSE, next |-> i, levels |-> level]
  ELSE IF steps[i].node_id # id \/ steps[i].node_type # nodes[id].node_type
  THEN [ok |-> FALSE, next |-> i, levels |-> level]
  ELSE WalkLogEach(nodes, steps, i + 1, Visited(nodes[id], steps[i].success), 1,
                   level + 1, level)

WalkLogEach(nodes, steps, i, ids, k, level, deepest) ==
  IF k > Len(ids) THEN [ok |-> TRUE, next |-> i, levels |-> deepest]
  ELSE LET r == WalkLog(nodes, steps, i, ids[k], level)
       IN IF ~r.ok THEN r
          ELSE WalkLogEach(nodes, steps, r.next, ids, k + 1, level,
                           IF r.levels > deepest THEN r.levels ELSE deepest)

\* the steps are exactly the depth-first walk from the start node
IsWalk(nodes, start, steps) ==
  \A r \in {WalkLog(nodes, steps, 1, start, 1)} : r.ok /\ r.next = Len(steps) + 1

\* the sum of the values of a function over a subset of its domain
RECURSIVE Sum(_, _)
Sum(f, S) ==
  IF S = {} THEN 0
  ELSE LET x == CHOOSE y \in S : TRUE IN f[x] + Sum(f, S \ {x})

\* the number of distinct paths along next_ids from node id to node n
RECURSIVE PathCount(_, _, _)
PathCount(nodes, id, n) ==
  (IF id = n THEN 1 ELSE 0)
    + Sum([k \in DOMAIN nodes[id].next_ids |-> PathCount(nodes, nodes[id].next_ids[k], n)],
          DOMAIN nodes[id].next_ids)

\* how many of the steps dispatched node n
VisitsOf(steps, n) == Cardinality({i \in DOMAIN steps : steps[i].node_id = n})

\* no BRANCH was dispatched and every dispatch succeeded
PlainWalk(steps) ==
  \A i \in DOMAIN steps : steps[i].node_type # 8 /\ steps[i].success

(***************************************************************************)
(* C22  For a successfully dispatched node that is not a BRANCH, the walk  *)
(* visits every successor depth-first in next_ids order, so a node         *)
(* reachable from the start along k distinct paths is dispatched k times   *)
(* (a TRANSFER there is paid k times) and the value returned by the walk   *)
(* is the total number of node visits.                                     *)
(***************************************************************************)
\* In the state a committed execution without BRANCH steps leaves: its steps
\* are the depth-first walk in next_ids order, total_steps counts them, and
\* when every dispatch succeeded each node has as many steps as paths lead
\* to it.
C22_Walk ==
  (Committed(lastTx) /\ \A i \in DOMAIN StepsOf(lastTx, events) :
                          StepsOf(lastTx, events)[i].node_type # 8) =>
    \A wf \in {WorkflowOf(lastTx, stores)} : \A steps \in {StepsOf(lastTx, events)} :
      /\ IsWalk(wf.nodes, wf.start_node_id, steps)
      /\ events[Len(events)].total_steps = Len(steps)
      /\ PlainWalk(steps) =>
           \A n \in DOMAIN wf.nodes :
             VisitsOf(steps, n) = PathCount(wf.nodes, wf.start_node_id, n)

\* Such an execution pays every other account, for each TRANSFER node that
\* targets it, the node's amount once per path to the node.
C22_PaidStep ==
  (TxStep /\ Committed(lastTx') /\ PlainWalk(StepsOf(lastTx', events'))) =>
    \A wf \in {WorkflowOf(lastTx', stores')} :
      \A b \in Addresses \ {lastTx'.caller} :
        balance'[b] - balance[b] =
          Sum([n \in DOMAIN wf.nodes |->
                 IF wf.nodes[n].node_type = 1 /\ wf.nodes[n].target_address = b
                 THEN wf.nodes[n].amount * PathCount(wf.nodes, wf.start_node_id, n)
                 ELSE 0],
              DOMAIN wf.nodes)

C22_FanOut == []C22_Walk /\ [][C22_PaidStep]_vars

\* a committed execution dispatched a TRANSFER node twice, along the two
\* paths that lead to it, and the target holds both payments
C22_Witness ==
  /\ Committed(lastTx)
  /\ PlainWalk(StepsOf(lastTx, events))
  /\ \E n \in DOMAIN WorkflowOf(lastTx, stores).nodes :
       /\ WorkflowOf(lastTx, stores).nodes[n].node_type = 1
       /\ VisitsOf(StepsOf(lastTx, events), n) = 2
       /\ balance[WorkflowOf(lastTx, stores).nodes[n].target_address]
            >= 2 * WorkflowOf(lastTx, stores).nodes[n].amount

(***************************************************************************)
(* C23  A BRANCH node with two or more successors continues into           *)
(* next_ids[0] only and never into any other successor; a BRANCH node with *)
(* zero or one successor continues into none, so its single successor is   *)
(* not executed.                                                           *)
(***************************************************************************)
\* the index after the walk of the node dispatched at step i
WalkEnd(nodes, steps, i) == WalkLog(nodes, steps, i, steps[i].node_id, 1).next

\* In the state a committed execution leaves: its steps are the walk in
\* which a BRANCH is followed by the walk of its first successor alone, or
\* by nothing when it has fewer than two successors.
C23_BranchFirstOnly ==
  Committed(lastTx) =>
    \A wf \in {WorkflowOf(lastTx, stores)} : \A steps \in {StepsOf(lastTx, events)} :
      /\ IsWalk(wf.nodes, wf.start_node_id, steps)
      /\ \A i \in DOMAIN steps :
           steps[i].node_type = 8 =>
             /\ steps[i].success
             /\ IF Len(wf.nodes[steps[i].node_id].next_ids) >= 2
                THEN /\ i < Len(steps)
                     /\ steps[i + 1].node_id = wf.nodes[steps[i].node_id].next_ids[1]
                     /\ WalkEnd(wf.nodes, steps, i) = WalkEnd(wf.nodes, steps, i + 1)
                ELSE WalkEnd(wf.nodes, steps, i) = i + 1

\* a committed execution dispatched a BRANCH that has a single successor, a
\* TRANSFER, and left that successor out; and the caller has executed a
\* workflow whose BRANCH start node has two successors, the second a
\* TRANSFER, without paying it
C23_Witness ==
  /\ Committed(lastTx)
  /\ \E i \in DOMAIN StepsOf(lastTx, events) :
       LET node == WorkflowOf(lastTx, stores).nodes[StepsOf(lastTx, events)[i].node_id]
       IN /\ node.node_type = 8
          /\ Len(node.next_ids) = 1
          /\ WorkflowOf(lastTx, stores).nodes[node.next_ids[1]].node_type = 1
          /\ VisitsOf(StepsOf(lastTx, events), node.next_ids[1]) = 0
  /\ \E w \in DOMAIN stores[lastTx.caller].workflows :
       LET wf == stores[lastTx.caller].workflows[w]
       IN /\ wf.last_executed_at > 0
          /\ wf.nodes[wf.start_node_id].node_type = 8
          /\ Len(wf.nodes[wf.start_node_id].next_ids) = 2
          /\ wf.nodes[wf.nodes[wf.start_node_id].next_ids[2]].node_type = 1
  /\ balance[lastTx.caller] = 5

(***************************************************************************)
(* C24  A BALANCE_CHECK node succeeds exactly when the owner's coin        *)
(* balance at the moment the node is visited (after transfers made earlier *)
(* in the same walk) is at least the node's amount; when it fails, a step  *)
(* event with success=false is emitted, no node below it is executed, and  *)
(* the execution still commits with last_executed_at updated and a         *)
(* WorkflowCompletedEvent with success=true.                               *)
(***************************************************************************)
\* what the transfers recorded before step i have taken from the owner
PaidBefore(nodes, steps, i, owner) ==
  Sum([j \in 1..(i - 1) |->
         IF steps[j].node_type = 1 /\ nodes[steps[j].node_id].target_address # owner
         THEN nodes[steps[j].node_id].amount ELSE 0],
      1..(i - 1))

\* the completion a committed execution leaves: the last event of the log,
\* the execution time and the cleared lock
CompletedAt(tx, st, log, t) ==
  /\ log[Len(log)] = [kind |-> "WorkflowCompletedEvent", workflow_id |-> tx.workflow_id,
                      total_steps |-> Len(StepsOf(tx, log)), success |-> TRUE]
  /\ WorkflowOf(tx, st).last_executed_at = t
  /\ ~WorkflowOf(tx, st).is_locked

C24_CheckStep ==
  /\ (TxStep /\ Committed(lastTx')) =>
       \A wf \in {WorkflowOf(lastTx', stores')} : \A steps \in {StepsOf(lastTx', events')} :
         \A i \in DOMAIN steps :
           steps[i].node_type = 2 =>
             /\ steps[i].success =
                  (balance[lastTx'.caller]
                     - PaidBefore(wf.nodes, steps, i, lastTx'.caller)
                       >= wf.nodes[steps[i].node_id].amount)
             /\ steps[i].error_code = 0
             /\ ~steps[i].success =>
                  /\ WalkEnd(wf.nodes, steps, i) = i + 1
                  /\ CompletedAt(lastTx', stores', events', now)
  /\ (TxStep /\ lastTx'.op \in {"execute_workflow", "register_and_execute_workflow"}) =>
       \A x \in {Executed(lastTx')} :
         (/\ x # <<>>
          /\ x[2] \in DOMAIN x[1]
          /\ x[1][x[2]].node_type = 2
          /\ balance[lastTx'.caller] < x[1][x[2]].amount) =>
            /\ lastTx'.abort = 0
            /\ balance' = balance
            /\ Len(StepsOf(lastTx', events')) = 1
            /\ ~StepsOf(lastTx', events')[1].success
            /\ CompletedAt(lastTx', stores', events', now)

C24_BalanceCheck == [][C24_CheckStep]_vars

\* a committed execution recorded a failed check right behind a transfer
\* without which the owner's balance would have met the check's amount (the
\* check's successor was left out)
C24_Witness ==
  /\ Committed(lastTx)
  /\ \E i \in DOMAIN StepsOf(lastTx, events) :
       LET steps == StepsOf(lastTx, events)
           nodes == WorkflowOf(lastTx, stores).nodes
       IN /\ i > 1
          /\ steps[i].node_type = 2
          /\ ~steps[i].success
          /\ steps[i - 1].node_type = 1
          /\ nodes[steps[i - 1].node_id].target_address # lastTx.caller
          /\ balance[lastTx.caller] < nodes[steps[i].node_id].amount
          /\ balance[lastTx.caller] + nodes[steps[i - 1].node_id].amount
               >= nodes[steps[i].node_id].amount
          /\ Len(nodes[steps[i].node_id].next_ids) = 1
          /\ i = Len(steps)

\* Where the first path of a walk ends, the walk going from each dispatched
\* node into the first successor it visits: at an unimplemented node
\* ("unimplemented"), below the 20th level ("limit"), at an id that is no
\* node ("missing"), at a transfer that coin::transfer refuses ("transfer"),
\* at a failed dispatch ("failed") or at a node that continues into nothing
\* ("leaf").  bal is the owner's balance when the node is reached.
RECURSIVE FirstPath(_, _, _, _, _)
FirstPath(nodes, id, bal, owner, level) ==
  IF level > 20 THEN "limit"
  ELSE IF id \notin DOMAIN nodes THEN "missing"
  ELSE IF nodes[id].node_type \in {4, 5, 6, 9, 10, 11} THEN "unimplemented"
  ELSE IF /\ nodes[id].node_type = 1
          /\ (bal < nodes[id].amount \/ nodes[id].target_address \notin CoinRegistered)
  THEN "transfer"
  ELSE IF nodes[id].node_type = 2 /\ bal < nodes[id].amount THEN "failed"
  ELSE IF nodes[id].node_type \notin 1..11 THEN "failed"
  ELSE IF Visited(nodes[id], TRUE) = <<>> THEN "leaf"
  ELSE FirstPath(nodes, Visited(nodes[id], TRUE)[1],
                 IF nodes[id].node_type = 1 /\ nodes[id].target_address # owner
                 THEN bal - nodes[id].amount ELSE bal,
                 owner, level + 1)

\* how the first path of the walk of transaction tx ends, from the state
\* before it; "none" for a transaction that walks no graph
FirstPathOf(tx) ==
  IF tx.op \notin {"execute_workflow", "register_and_execute_workflow"} THEN "none"
  ELSE IF Executed(tx) = <<>> THEN "none"
  ELSE FirstPath(Executed(tx)[1], Executed(tx)[2], balance[tx.caller], tx.caller, 1)

(***************************************************************************)
(* C25  Reaching a node of type SWAP, STAKE, VOTE, LIQUIDITY, BORROW_LEND  *)
(* or ORACLE_CHECK during a walk aborts the whole transaction with         *)
(* NotImplemented (code 11); no step event is recorded for it and every    *)
(* effect of nodes executed before it is discarded.                        *)
(***************************************************************************)
\* The log holds no step of such a node, and no committed execution
\* dispatched a node that continues into one.
C25_NeverRecorded ==
  /\ \A i \in DOMAIN events :
       events[i].kind = "WorkflowStepEvent" => events[i].node_type \notin {4, 5, 6, 9, 10, 11}
  /\ Committed(lastTx) =>
       \A wf \in {WorkflowOf(lastTx, stores)} : \A steps \in {StepsOf(lastTx, events)} :
         \A i \in DOMAIN steps :
           \A k \in DOMAIN Visited(wf.nodes[steps[i].node_id], steps[i].success) :
             \A id \in {Visited(wf.nodes[steps[i].node_id], steps[i].success)[k]} :
               id \in DOMAIN wf.nodes /\ wf.nodes[id].node_type \notin {4, 5, 6, 9, 10, 11}

\* A walk whose first path reaches such a node aborts with code 11; a
\* transaction that aborts with code 11 walked a graph that holds such a
\* node, and leaves balances, stores and the event log as they were.
C25_AbortStep ==
  /\ (TxStep /\ FirstPathOf(lastTx') = "unimplemented") => lastTx'.abort = 11
  /\ (TxStep /\ lastTx'.abort = 11) =>
       /\ lastTx'.op \in {"execute_workflow", "register_and_execute_workflow"}
       /\ Executed(lastTx') # <<>>
       /\ \E n \in DOMAIN Executed(lastTx')[1] :
            Executed(lastTx')[1][n].node_type \in {4, 5, 6, 9, 10, 11}
       /\ balance' = balance
       /\ stores' = stores
       /\ events' = events

C25_NotImplemented == []C25_NeverRecorded /\ [][C25_AbortStep]_vars

\* a register-and-execute has aborted with code 11 at a node that the
\* second path of a fan-out reaches, the first path having made a transfer
\* the caller could pay for, and the caller still holds its coins and has
\* no workflow under the id
C25_Witness ==
  /\ lastTx.op = "register_and_execute_workflow"
  /\ lastTx.abort = 11
  /\ lastTx.args.node_types = <<7, 1, 5>>
  /\ lastTx.args.next_node_counts = <<2, 0, 0>>
  /\ balance[lastTx.caller] >= lastTx.args.amounts[2]
  /\ lastTx.args.amounts[2] > 0
  /\ ~has_workflow(stores, lastTx.caller, lastTx.workflow_id)

(***************************************************************************)
(* C26  Each committed executeWorkflow emits exactly one                   *)
(* WorkflowCompletedEvent, after all WorkflowStepEvents of that execution, *)
(* with success=true and total_steps equal to the number of                *)
(* WorkflowStepEvents emitted in that execution, and sets last_executed_at *)
(* to the current time with the lock cleared.                              *)
(***************************************************************************)
C26_CompletionStep ==
  (TxStep /\ Committed(lastTx')) =>
    \A added \in {SubSeq(events', Len(events) + 1, Len(events'))} :
      \A first \in {IF lastTx'.op = "execute_workflow" THEN 1 ELSE 2} :
        /\ SubSeq(events', 1, Len(events)) = events
        /\ Len(added) >= first + 1
        /\ first = 2 => added[1].kind = "WorkflowRegisteredEvent"
        /\ \A i \in first..(Len(added) - 1) :
             /\ added[i].kind = "WorkflowStepEvent"
             /\ added[i].workflow_id = lastTx'.workflow_id
        /\ added[Len(added)] =
             [kind |-> "WorkflowCompletedEvent", workflow_id |-> lastTx'.workflow_id,
              total_steps |-> Len(added) - first, success |-> TRUE]
        /\ has_workflow(stores', lastTx'.caller, lastTx'.workflow_id)
        /\ stores'[lastTx'.caller].workflows[lastTx'.workflow_id].last_executed_at = now
        /\ ~stores'[lastTx'.caller].workflows[lastTx'.workflow_id].is_locked

C26_OneCompletion == [][C26_CompletionStep]_vars

\* a stored workflow has been executed again at a later block time; the
\* execution recorded a failed step, and its completion event reports two
\* steps and success
C26_Witness ==
  /\ lastTx.op = "execute_workflow"
  /\ lastTx.abort = 0
  /\ \E i \in DOMAIN StepsOf(lastTx, events) : ~StepsOf(lastTx, events)[i].success
  /\ events[Len(events)].kind = "WorkflowCompletedEvent"
  /\ events[Len(events)].total_steps = 2
  /\ events[Len(events)].success
  /\ WorkflowOf(lastTx, stores).last_executed_at > WorkflowOf(lastTx, stores).created_at

(***************************************************************************)
(* C27  executeWorkflow terminates on every stored graph, including graphs *)
(* with cycles and self-loops: every path of the walk ends within 20       *)
(* levels, either at a node with no visited successors, at a failed soft   *)
(* check, or by aborting with RecursionLimitExceeded.                      *)
(***************************************************************************)
\* The walk of a committed execution is a finite tree of at most 20 levels
\* (each path of the recorded steps ends at a step that is followed by none
\* of its own: a failed one, or one of a node that continues into nothing).
C27_WithinLevels ==
  Committed(lastTx) =>
    \A r \in {WalkLog(WorkflowOf(lastTx, stores).nodes, StepsOf(lastTx, events), 1,
                      WorkflowOf(lastTx, stores).start_node_id, 1)} :
      /\ r.ok
      /\ r.next = Len(StepsOf(lastTx, events)) + 1
      /\ r.levels <= 20

\* Every execution ends, committed or aborted; one whose first path goes on
\* below the 20th level, as on a cycle of nodes that dispatch successfully,
\* aborts with code 7 and changes nothing.
C27_LimitStep ==
  /\ (TxStep /\ lastTx'.op \in Executing) =>
       \/ lastTx'.abort # 0
       \/ Committed(lastTx') /\ events'[Len(events')].kind = "WorkflowCompletedEvent"
  /\ (TxStep /\ FirstPathOf(lastTx') = "limit") =>
       /\ lastTx'.abort = 7
       /\ balance' = balance
       /\ stores' = stores
       /\ events' = events

C27_Terminates == []C27_WithinLevels /\ [][C27_LimitStep]_vars

\* the walk of a self-loop has aborted with code 7, and the caller holds a
\* workflow whose two nodes, a transfer and a balance check, form a cycle
\* and whose execution has committed
C27_Witness ==
  /\ lastTx.op = "register_and_execute_workflow"
  /\ lastTx.abort = 7
  /\ lastTx.args.node_ids = <<1>>
  /\ lastTx.args.flat_next_node_ids = <<1>>
  /\ \E w \in DOMAIN stores[lastTx.caller].workflows :
       LET wf == stores[lastTx.caller].workflows[w]
       IN /\ wf.last_executed_at > 0
          /\ DOMAIN wf.nodes = {1, 2}
          /\ wf.nodes[1].next_ids = <<2>>
          /\ wf.nodes[2].next_ids = <<1>>
          /\ wf.nodes[2].node_type = 2

(***************************************************************************)
(* C28  When registerAndExecuteWorkflow or                                 *)
(* registerAndExecuteSimpleTransferWorkflow aborts, during graph building  *)
(* or during execution, no workflow is registered: hasWorkflow is false    *)
(* for the attempted id, next_workflow_id is unchanged and no              *)
(* WorkflowRegisteredEvent is recorded; in particular a call with empty    *)
(* arrays always aborts with InvalidNodeId because start node 0 does not   *)
(* exist.                                                                  *)
(***************************************************************************)
C28_AbortStep ==
  /\ (/\ TxStep
      /\ lastTx'.op \in {"register_and_execute_workflow",
                         "register_and_execute_simple_transfer_workflow"}
      /\ lastTx'.abort # 0) =>
       \A id \in {get_next_workflow_id(stores, lastTx'.caller)} :
         /\ ~has_workflow(stores', lastTx'.caller, id)
         /\ get_next_workflow_id(stores', lastTx'.caller) = id
         /\ stores'[lastTx'.caller] = stores[lastTx'.caller]
         /\ events' = events
  /\ (/\ TxStep
      /\ lastTx'.op = "register_and_execute_workflow"
      /\ lastTx'.args.node_ids = <<>>) =>
       lastTx'.abort = 4

C28_NothingRegistered == [][C28_AbortStep]_vars

\* a call with empty arrays has aborted with code 4 for a caller that holds
\* one workflow: the id it attempted is still the next one and is not stored
C28_Witness ==
  /\ lastTx.op = "register_and_execute_workflow"
  /\ lastTx.args = NoArgs
  /\ lastTx.abort = 4
  /\ get_next_workflow_id(stores, lastTx.caller) = 1
  /\ has_workflow(stores, lastTx.caller, 0)
  /\ ~has_workflow(stores, lastTx.caller, 1)
  /\ \A i \in DOMAIN events :
       events[i].kind = "WorkflowRegisteredEvent" => events[i].workflow_id = 0

(***************************************************************************)
(* C29  A committed executeWorkflow conserves the total of all coin        *)
(* balances, and the executing signer's balance falls by exactly the sum   *)
(* of the amounts of the TRANSFER steps recorded in that execution whose   *)
(* target is another account; no balance is ever negative.                 *)
(***************************************************************************)
C29_NonNegative == \A a \in Addresses : balance[a] >= 0

C29_TransferStep ==
  (TxStep /\ Committed(lastTx')) =>
    \A wf \in {WorkflowOf(lastTx', stores')} : \A steps \in {StepsOf(lastTx', events')} :
      /\ Sum(balance', Addresses) = Sum(balance, Addresses)
      /\ balance[lastTx'.caller] - balance'[lastTx'.caller]
           = PaidBefore(wf.nodes, steps, Len(steps) + 1, lastTx'.caller)

C29_Conservation == []C29_NonNegative /\ [][C29_TransferStep]_vars

\* a committed execution recorded a transfer to the signer itself and a
\* transfer to another account, and the signer's balance has fallen by the
\* second alone
C29_Witness ==
  /\ Committed(lastTx)
  /\ \E i, j \in DOMAIN StepsOf(lastTx, events) :
       LET steps == StepsOf(lastTx, events)
           nodes == WorkflowOf(lastTx, stores).nodes
       IN /\ steps[i].node_type = 1
          /\ nodes[steps[i].node_id].target_address = lastTx.caller
          /\ nodes[steps[i].node_id].amount > 0
          /\ steps[j].node_type = 1
          /\ nodes[steps[j].node_id].target_address # lastTx.caller
          /\ Len(steps) = 2
          /\ balance[lastTx.caller] = 5 - nodes[steps[j].node_id].amount

(***************************************************************************)
(* Vocabulary of the properties of the rate limiter under concurrency.     *)
(***************************************************************************)
\* the requests of a wallet that were admitted and arrived while the window
\* that opened at windowStart was current
AdmittedIn(sender, windowStart) ==
  {c \in RateCallIds :
     /\ rateCalls[c].pc = "admitted"
     /\ rateCalls[c].sender = sender
     /\ rateCalls[c].at >= windowStart
     /\ rateCalls[c].at <= windowStart + HourMs}

(***************************************************************************)
(* C30  Under every interleaving of concurrent requests from one wallet    *)
(* through rateLimitByWallet (suspension at each database call), at most N *)
(* requests, N being the configured threshold, are admitted while one      *)
(* window is current, and at most one RateLimit row per wallet has         *)
(* windowStart within the last hour.                                       *)
(***************************************************************************)
C30_AtMostN ==
  \A sender \in RateWallets :
    /\ \A i \in DOMAIN rateLimits :
         rateLimits[i].walletAddress = sender =>
           Cardinality(AdmittedIn(sender, rateLimits[i].windowStart))
             <= RateLimitRequestsPerHour
    /\ Cardinality(rateLimitFindFirst(rateLimits, sender, nowMs - HourMs)) <= 1

(***************************************************************************)
(* C31  Admitting a request through requirePayment never modifies or       *)
(* consumes the Payment row, and re-verifying an already stored            *)
(* transaction hash does not change its verifiedAt or expiresAt: one       *)
(* verified payment admits every gated request of its wallet until         *)
(* expiresAt and none after it.  As a step property: no step changes or    *)
(* removes a stored Payment row; a request admitted by requirePayment      *)
(* carries the id of a row of its wallet that has not expired; and with    *)
(* payment skipping off a request with a sender whose lookup completes     *)
(* leaves both tables as they are and is admitted exactly when its wallet  *)
(* has a row that has not expired.                                         *)
(***************************************************************************)
\* the rows of the wallet whose expiresAt has not passed
UnexpiredPaymentsOf(us, ps, wallet, t) ==
  {i \in DOMAIN ps : us[ps[i].userId].walletAddress = wallet /\ ps[i].expiresAt >= t}

C31_Step ==
  /\ \A i \in DOMAIN payments : i \in DOMAIN payments' /\ payments'[i] = payments[i]
  /\ (lastReq = NoReq /\ lastReq'.handler = "requirePayment") =>
       /\ lastReq'.next =>
            \E i \in UnexpiredPaymentsOf(users', payments', lastReq'.sender, clock) :
               payments'[i].id = lastReq'.payment.paymentId
       /\ (SkippingOff /\ lastReq'.sender # "" /\ lastReq'.status # 500) =>
            /\ payments' = payments
            /\ users' = users
            /\ lastReq'.next <=>
                 UnexpiredPaymentsOf(users, payments, lastReq'.sender, clock) # {}

C31_PaymentKept == [][C31_Step]_vars

\* a stored hash is verified again after the clock has moved on
C31_Witness ==
  /\ lastReq.handler = "verify"
  /\ lastReq.status = 200
  /\ \E i \in DOMAIN payments :
        /\ payments[i].txHash = lastReq.txHash
        /\ payments[i].verifiedAt < clock

(***************************************************************************)
(* C32  cleanupRateLimits deletes exactly the RateLimit rows whose         *)
(* windowStart is more than 2 hours old, so running it at any point        *)
(* between requests never changes which later requests rateLimitByWallet   *)
(* admits or rejects.  As a step property of the runs with cleanups: a     *)
(* cleanup leaves the rows with windowStart >= now - 2 hours as they were, *)
(* in their order, and no other row; and the k-th request of a wallet      *)
(* inside one window, the windows counted without regard to the table, is  *)
(* admitted when k <= N and answered 429 when k > N.                       *)
(***************************************************************************)
\* the rows at the positions idx, in their order
RowsAt(rows, idx) ==
  [k \in 1..Cardinality(idx) |->
     rows[CHOOSE i \in idx : Cardinality({j \in idx : j < i}) = k - 1]]

C32_CleanupStep ==
  /\ (lastRate' = NoRate /\ nowMs' = nowMs) =>
       /\ rateLimits' =
            RowsAt(rateLimits, {i \in DOMAIN rateLimits :
                                  nowMs - rateLimits[i].windowStart <= CleanupHours * HourMs})
       /\ rateSeen' = rateSeen
  /\ \A w \in RateWallets :
       (rateSeen'[w] # rateSeen[w] /\ ~rateSeen'[w].failed) =>
         /\ lastRate'.sender = w
         /\ rateSeen'[w].requests <= RateLimitRequestsPerHour =>
              lastRate'.next /\ lastRate'.status = 0
         /\ rateSeen'[w].requests > RateLimitRequestsPerHour =>
              ~lastRate'.next /\ lastRate'.status = 429

C32_CleanupKeepsDecisions == [][C32_CleanupStep]_vars

\* a cleanup has deleted the first row of the table, and a request of a
\* later window is answered 429
C32_Witness ==
  /\ rateLimits # <<>>
  /\ rateLimits[1].id > 1
  /\ lastRate.status = 429

(***************************************************************************)
(* C33  If any database operation inside rateLimitByWallet throws, the     *)
(* request is passed to the next handler and no 429 or 500 is returned; a  *)
(* request without a sender field is also passed on, without creating or   *)
(* incrementing any RateLimit row.                                         *)
(***************************************************************************)
C33_RequestStep ==
  /\ \A w \in RateWallets :
       (rateSeen'[w].failed /\ ~rateSeen[w].failed) =>
         /\ lastRate'.sender = w
         /\ lastRate'.next
         /\ lastRate'.status = 0
  /\ (nowMs' = nowMs /\ lastRate'.sender = "") =>
       /\ lastRate'.next
       /\ lastRate'.status = 0
       /\ rateLimits' = rateLimits

C33_FailOpen == [][C33_RequestStep]_vars

\* a request of a wallet that has used up its window meets a database
\* failure and is passed on
C33_Witness ==
  /\ lastRate.sender \in RateWallets
  /\ rateSeen[lastRate.sender].failed
  /\ lastRate.next
  /\ \E i \in rateLimitFindFirst(rateLimits, lastRate.sender, nowMs - HourMs) :
       rateLimits[i].requestCount >= RateLimitRequestsPerHour

(***************************************************************************)
(* Vocabulary of the properties of SchedulerService.init.                  *)
(***************************************************************************)
ArmedIn(ts, id) == {t \in DOMAIN ts : ts[t].armed /\ ts[t].workflowId = id}

\* a call of init that completed
InitCompletes == schedInit'.n = schedInit.n + 1 /\ schedInit'.completed

\* the service holds no registration
NothingRegistered == \A id \in ScheduledIds : jobs[id] = 0

(***************************************************************************)
(* C34  After SchedulerService.init() completes, every Workflow row that   *)
(* is active with trigger type schedule has exactly one armed registration *)
(* using its stored cron expression, and no other workflow has one.  As    *)
(* stated, for an init that starts without registrations.                  *)
(***************************************************************************)
C34_AsStatedStep ==
  (InitCompletes /\ NothingRegistered) =>
    \A id \in ScheduledIds :
      IF schedInit'.rows[id].isActive /\ schedInit'.rows[id].triggerType = "schedule"
      THEN \E t \in DOMAIN tasks' :
             /\ ArmedIn(tasks', id) = {t}
             /\ tasks'[t].cron = schedInit'.rows[id].cronExpression
      ELSE ArmedIn(tasks', id) = {}

C34_InitRegistersAll == [][C34_AsStatedStep]_vars

(***************************************************************************)
(* C34, amended: after init() completes, every Workflow row that is        *)
(* active with trigger type schedule and has a cronExpression set has      *)
(* exactly one armed registration using its stored cron expression, held   *)
(* by the jobs map; init registers no other workflow: every other workflow *)
(* keeps the registrations it had before, none when init ran on a service  *)
(* without registrations.                                                  *)
(***************************************************************************)
C34_InitStep ==
  InitCompletes =>
    \A id \in ScheduledIds :
      IF /\ schedInit'.rows[id].isActive
         /\ schedInit'.rows[id].triggerType = "schedule"
         /\ schedInit'.rows[id].cronExpression # ""
      THEN /\ jobs'[id] \in DOMAIN tasks'
           /\ ArmedIn(tasks', id) = {jobs'[id]}
           /\ tasks'[jobs'[id]].cron = schedInit'.rows[id].cronExpression
      ELSE /\ ArmedIn(tasks', id) = ArmedIn(tasks, id)
           /\ jobs'[id] = jobs[id]
           /\ NothingRegistered => ArmedIn(tasks', id) = {}

C34_InitRegistersScheduled == [][C34_InitStep]_vars

\* init registered one workflow and skipped an active schedule row without
\* a cronExpression
C34_Witness ==
  /\ schedInit.completed
  /\ \E id \in ScheduledIds :
       /\ schedInit.rows[id] = ScheduleRow(TRUE, "schedule", "0 * * * *")
       /\ jobs[id] # 0
       /\ tasks[jobs[id]].cron = "0 * * * *"
       /\ Len(tasks) = 1
  /\ \E id \in ScheduledIds :
       /\ schedInit.rows[id] = ScheduleRow(TRUE, "schedule", "")
       /\ jobs[id] = 0

(***************************************************************************)
(* Vocabulary of the properties of the poll loops.                         *)
(***************************************************************************)
\* the loops with a cycle of checkEventTriggers under way
Checking(ls) == {l \in DOMAIN ls : ls[l].pc \in {"find", "check"}}
\* the loops with a pending timer
Pending(ls) == {l \in DOMAIN ls : ls[l].pc = "timer"}

(***************************************************************************)
(* C35  After any sequence of IndexerService.start() and stop() calls, at  *)
(* any timing relative to the 10-second timer, at most one poll loop is    *)
(* alive: never two pending poll timers or two checkEventTriggers runs at  *)
(* once.                                                                   *)
(***************************************************************************)
C35_OneLoopAlive ==
  /\ Cardinality(Pending(loops)) <= 1
  /\ Cardinality(Checking(loops)) <= 1
  /\ Cardinality(Pending(loops) \cup Checking(loops)) <= 1

(***************************************************************************)
(* C36  Within one poll loop started by a single start(), the timer for    *)
(* cycle N+1 is armed only after cycle N has finished all its event        *)
(* fetches and executeWorkflow calls, whether the cycle succeeded or       *)
(* threw, and once stop() has been called no further cycle performs any    *)
(* fetch or execution.  As a step property: a loop gets its timer only in  *)
(* the step that ends its cycle, with no workflow left to check; a cycle   *)
(* begins only with the call of start() or when the timer of the cycle     *)
(* before it fires; and in a run with a single effective start(), where    *)
(* the flag is down exactly when stop() has been called since, no cycle    *)
(* begins while the flag is down.                                          *)
(***************************************************************************)
C36_LoopStep ==
  \A l \in DOMAIN loops' :
    /\ (l \in Pending(loops') /\ l \notin Pending(loops)) =>
         /\ l \in Checking(loops)
         /\ loops[l].pc = "check" => loops[l].left = 1
         /\ loops'[l].left = 0
         /\ loops'[l].cycle = loops[l].cycle
    /\ (l \in Checking(loops') /\ l \notin Checking(loops)) =>
         /\ loops'[l].pc = "find"
         /\ IF l \in DOMAIN loops
            THEN /\ l \in Pending(loops)
                 /\ loops[l].left = 0
                 /\ loops'[l].cycle = loops[l].cycle + 1
            ELSE loops'[l].cycle = 1
         /\ Len(loops') = 1 => isRunning'
    /\ (l \in DOMAIN loops /\ loops'[l].left # loops[l].left) =>
         l \in Checking(loops)

C36_SequentialCycles == [][C36_LoopStep]_vars

\* the one loop of a run went through two cycles and returned when its
\* timer fired after stop()
C36_Witness ==
  /\ Len(loops) = 1
  /\ ~isRunning
  /\ loops[1].pc = "ended"
  /\ loops[1].cycle = 2

(***************************************************************************)
(* C37  Every Prompt row created by POST /api/generate or                  *)
(* POST /api/workflow/stream eventually reaches COMPLETED or FAILED once   *)
(* its request and job have finished, including when sending the job event *)
(* fails or the generation stream throws; none is left in PENDING or       *)
(* PROCESSING for ever.  A row whose request has been answered and whose   *)
(* job, if one was started, has returned or failed for good is written by  *)
(* no later step, so the claim is that such a row is COMPLETED or FAILED.  *)
(***************************************************************************)
\* nothing is left to run for the p-th prompt
PromptAtRest(p) == runs[p].pc \in {"none", "returned", "failed", "ended"}

C37_PromptSettles ==
  \A p \in DOMAIN prompts :
    PromptAtRest(p) => prompts[p].status \in {"COMPLETED", "FAILED"}

(***************************************************************************)
(* Vocabulary of the properties of the frames of a workflow stream.        *)
(***************************************************************************)
FramesOfType(type) == {i \in DOMAIN stream.frames : stream.frames[i].type = type}
\* the stages a node frame has been sent for, and the id sent for a stage
EmittedStages ==
  {n \in DOMAIN StageFields :
     \E i \in FramesOfType("node") : stream.frames[i].field = StageFields[n]}
EmittedId(n) ==
  stream.frames[CHOOSE i \in FramesOfType("node") :
                  stream.frames[i].field = StageFields[n]].id
\* the emitted stages that follow one another in the pipeline
ConsecutiveStages ==
  {pair \in EmittedStages \X EmittedStages :
     /\ pair[1] < pair[2]
     /\ ~\E n \in EmittedStages : pair[1] < n /\ n < pair[2]}
\* the stream ran to its end and the complete frame was written
StreamCompleted ==
  /\ stream.pc = "ended"
  /\ stream.frames[Len(stream.frames)].type = "complete"

(***************************************************************************)
(* C38  In one workflow stream, a node frame is sent at most once for each *)
(* of trigger, condition, action and flowControl, every edge frame refers  *)
(* only to node ids already sent, and the complete frame's totalNodes and  *)
(* totalEdges equal the numbers of node and edge frames sent before it.    *)
(***************************************************************************)
C38_Frames ==
  /\ \A i, j \in FramesOfType("node") :
       stream.frames[i].field = stream.frames[j].field => i = j
  /\ \A e \in FramesOfType("edge") :
       /\ \E i \in FramesOfType("node") :
            i < e /\ stream.frames[i].id = stream.frames[e].source
       /\ \E i \in FramesOfType("node") :
            i < e /\ stream.frames[i].id = stream.frames[e].target
  /\ \A c \in FramesOfType("complete") :
       /\ stream.frames[c].totalNodes =
            Cardinality({i \in FramesOfType("node") : i < c})
       /\ stream.frames[c].totalEdges =
            Cardinality({i \in FramesOfType("edge") : i < c})
       /\ c = Len(stream.frames)

\* the four fields arrived one partial object after the other, the action
\* before the condition, and the stream was completed
C38_Witness ==
  /\ StreamCompleted
  /\ stream.frames[Len(stream.frames)].totalNodes = 4
  /\ stream.frames[Len(stream.frames)].totalEdges = 3
  /\ stream.partials = 4
  /\ \E i, j \in FramesOfType("node") :
       /\ i < j
       /\ stream.frames[i].field = "action"
       /\ stream.frames[j].field = "condition"

(***************************************************************************)
(* C39  In one workflow stream, for every order in which the trigger,      *)
(* condition, action and flowControl fields first appear in the partial    *)
(* objects, the edge frames link the emitted nodes as a chain in pipeline  *)
(* order trigger, condition, action, flowControl with absent stages        *)
(* skipped, one edge per consecutive pair, with ids edge_0, edge_1, and so *)
(* on in order of emission.  Stated of a stream that was completed.        *)
(***************************************************************************)
C39_PipelineChain ==
  StreamCompleted =>
    /\ Cardinality(FramesOfType("edge")) = Cardinality(ConsecutiveStages)
    /\ \A pair \in ConsecutiveStages :
         \E e \in FramesOfType("edge") :
           /\ stream.frames[e].source = EmittedId(pair[1])
           /\ stream.frames[e].target = EmittedId(pair[2])
    /\ \A e \in FramesOfType("edge") :
         stream.frames[e].id =
           "edge_" \o ToString(Cardinality({i \in FramesOfType("edge") : i < e}))

(***************************************************************************)
(* Vocabulary of the properties of the frames of a chat response.          *)
(***************************************************************************)
RECURSIVE TextOf(_)
\* the texts of the text frames of a response, one after the other
TextOf(frames) ==
  IF frames = <<>> THEN ""
  ELSE (IF Head(frames).type = "text" THEN Head(frames).text ELSE "")
         \o TextOf(Tail(frames))
HasFrame(frames, type) == \E i \in DOMAIN frames : frames[i].type = type
\* the rows of a table written for the conversation of the request
ChatRows(rows, role) ==
  {i \in DOMAIN rows : /\ rows[i].role = role
                       /\ rows[i].conversationId = chat.conversationId}

(***************************************************************************)
(* C40  In POST /api/chat/stream with a wallet supplied, the user's        *)
(* message is persisted before the first text frame is written, the        *)
(* assistant message persisted equals the concatenation of all text frames *)
(* sent, it is persisted before the [DONE] frame, [DONE] is the last frame *)
(* of the response, and a response that ends after an error carries no     *)
(* [DONE] frame.  Stated of every step of a request.                       *)
(***************************************************************************)
C40_ChatStep ==
  chat'.walletAddress # "" =>
    \A before \in {chat.frames} : \A after \in {chat'.frames} :
      \* the first text frame finds the user's message in the table
      /\ (~HasFrame(before, "text") /\ HasFrame(after, "text")) =>
           \E i \in ChatRows(chatMessages, "user") :
             chatMessages[i].content = chat.message
      \* the [DONE] frame finds the assistant's message in the table
      /\ (~HasFrame(before, "done") /\ HasFrame(after, "done")) =>
           \E i \in ChatRows(chatMessages, "assistant") :
             chatMessages[i].content = TextOf(after)
      \* the assistant's message is the text sent, and there is one at most
      /\ \A i, j \in ChatRows(chatMessages', "assistant") :
           /\ chatMessages'[i].content = TextOf(after)
           /\ i = j
      \* [DONE] is the last frame and nothing is written after it
      /\ \A i \in DOMAIN after :
           after[i].type = "done" => i = Len(after) /\ chat'.pc = "ended"
      /\ HasFrame(before, "done") => after = before
      \* no [DONE] beside an error frame
      /\ HasFrame(after, "error") => ~HasFrame(after, "done")

C40_ChatStream == [][C40_ChatStep]_vars

\* a response of two different chunks and [DONE], with both messages saved
C40_Witness ==
  /\ chat.pc = "ended"
  /\ chat.walletAddress # ""
  /\ Len(chat.frames) = 3
  /\ chat.frames[1].type = "text" /\ chat.frames[2].type = "text"
  /\ chat.frames[1].text # chat.frames[2].text
  /\ chat.frames[3].type = "done"
  /\ \E i \in ChatRows(chatMessages, "user") : chatMessages[i].content = chat.message
  /\ \E i \in ChatRows(chatMessages, "assistant") :
       chatMessages[i].content = chat.frames[1].text \o chat.frames[2].text

====
